---- MODULE Spec2Model ----
(***************************************************************************)
(* Model of the mini_manim animation engine: the Animation lifecycle       *)
(* (begin / interpolate / finish), the Transform morph, the Timeline       *)
(* scheduler and CairoRenderer.render_scene.                               *)
(*                                                                         *)
(* Numbers.  Python floats are modelled as exact rationals <<n, d>> with   *)
(* d > 0 and gcd(|n|, d) = 1, so equality of values is equality of pairs.  *)
(* Angles are measured in units of pi radians: math.pi is the rational 1   *)
(* and 2 * math.pi is 2.  Floating-point rounding is not modelled.         *)
(***************************************************************************)
EXTENDS Integers, Sequences, FiniteSets, TLC

VARIABLES
    mob,        \* object id -> animatable state (the MObject attributes)
    anims,      \* sequence of Animation objects, in construction order
    mobjects,   \* Scene.mobjects: the scene's list of objects
    builders,   \* sequence of AnimationBuilder objects: [mobject, pending_operations]
    blocks,     \* Timeline.blocks: sequence of [animations, duration]
    fps,        \* Timeline.fps
    durSum,     \* history: sum of the durations of the blocks added since the last reset
    phase,      \* position of the driver: "construct", "frames", "done", "api", "unit"
    frame,      \* render_scene: the next frame index of the frame loop
    total,      \* render_scene: the local total_frames
    renders,    \* number of render_scene passes started
    nfinish,    \* history: per animation, the finish() calls of the present pass
    nbegin,     \* number of begin() calls made so far (bounds the lifecycle spec)
    nmut,       \* number of external mutations made so far
    nops,       \* number of builder operations queued so far (bounds the builder spec)
    nbuild,     \* number of build() calls made so far
    last        \* history: the last operation and what it observed

sceneVars    == <<mobjects, builders>>
timelineVars == <<blocks, fps, durSum>>
renderVars   == <<frame, total, renders, nfinish>>
unitVars     == <<nbegin, nmut, nops, nbuild>>

vars == <<mob, anims, sceneVars, timelineVars, phase, renderVars, unitVars, last>>

-----------------------------------------------------------------------------
(* Exact rational arithmetic standing for Python float arithmetic.          *)

Abs(x) ==
    IF x < 0 THEN -x ELSE x

RECURSIVE GCD(_, _)
GCD(a, b) ==
    IF b = 0 THEN a ELSE IF b = 1 THEN 1 ELSE GCD(b, a % b)

Rat(n, d) ==
    IF d = 1 THEN <<n, 1>>
    ELSE LET g == GCD(Abs(n), d) IN <<n \div g, d \div g>>

Zero == <<0, 1>>
One  == <<1, 1>>
Half == <<1, 2>>

RInt(k) == <<k, 1>>

(* sums over the least common denominator, products cancelled crosswise,  *)
(* so that intermediate integers stay small                                 *)
RAdd(a, b) ==
    IF a[2] = 1 /\ b[2] = 1 THEN <<a[1] + b[1], 1>>
    ELSE LET g == GCD(a[2], b[2])
         IN  Rat(a[1] * (b[2] \div g) + b[1] * (a[2] \div g), (a[2] \div g) * b[2])

RNeg(a) == <<-a[1], a[2]>>

RSub(a, b) == RAdd(a, RNeg(b))

RMul(a, b) ==
    IF a[2] = 1 /\ b[2] = 1 THEN <<a[1] * b[1], 1>>
    ELSE LET g1 == GCD(Abs(a[1]), b[2])
             g2 == GCD(Abs(b[1]), a[2])
         IN  Rat((a[1] \div g1) * (b[1] \div g2), (a[2] \div g2) * (b[2] \div g1))

RDiv(a, b) ==
    IF b[1] > 0 THEN Rat(a[1] * b[2], a[2] * b[1])
    ELSE Rat(-(a[1] * b[2]), a[2] * (-b[1]))

RLt(a, b) == a[1] * b[2] < b[1] * a[2]
RLe(a, b) == a[1] * b[2] <= b[1] * a[2]
RMax(a, b) == IF RLt(a, b) THEN b ELSE a
RMin(a, b) == IF RLt(b, a) THEN b ELSE a
RAbs(a)    == <<Abs(a[1]), a[2]>>

RPow2(a) == RMul(a, a)
RPow3(a) == RMul(a, RMul(a, a))

(* Python's round(x): to the nearest integer, ties to the even one.         *)
Round(x) ==
    LET q == x[1] \div x[2]
        r == x[1] % x[2]
    IN  IF 2 * r < x[2] THEN q
        ELSE IF 2 * r > x[2] THEN q + 1
        ELSE IF q % 2 = 0 THEN q ELSE q + 1

(* math.pi and 2 * math.pi, with angles in units of pi.                     *)
PI    == One
TwoPI == RInt(2)

-----------------------------------------------------------------------------
(* easing.py                                                                *)

linear(t) == t

ease_in_quad(t) == RMul(t, t)

ease_out_quad(t) == RSub(One, RMul(RSub(One, t), RSub(One, t)))

ease_in_out_quad(t) ==
    IF RLt(t, Half) THEN RMul(RInt(2), RMul(t, t))
    ELSE RSub(One, RDiv(RPow2(RAdd(RMul(RInt(-2), t), RInt(2))), RInt(2)))

ease_in_cubic(t) == RMul(RMul(t, t), t)

ease_out_cubic(t) == RSub(One, RPow3(RSub(One, t)))

ease_in_out_cubic(t) ==
    IF RLt(t, Half) THEN RMul(RMul(RMul(RInt(4), t), t), t)
    ELSE RSub(One, RDiv(RPow3(RAdd(RMul(RInt(-2), t), RInt(2))), RInt(2)))

(* mutant of smooth: the sign of the cubic term is turned *)
smoothWrongSign(t) == RMul(RMul(t, t), RAdd(RInt(3), RMul(RInt(2), t)))

smooth(t) == RMul(RMul(t, t), RSub(RInt(3), RMul(RInt(2), t)))

(* np.cos and np.sin at the angles, in units of pi, where they are rational *)
CosAngles == {Zero, Rat(1, 3), Half, Rat(2, 3), One}
SinAngles == {Zero, Rat(1, 6), Half}

Cos(x) ==
    CASE x = Zero      -> One
      [] x = Rat(1, 3) -> Half
      [] x = Half      -> Zero
      [] x = Rat(2, 3) -> RNeg(Half)
      [] x = One       -> RNeg(One)

Sin(x) ==
    CASE x = Zero      -> Zero
      [] x = Rat(1, 6) -> Half
      [] x = Half      -> One

ease_in_sine(t) == RSub(One, Cos(RDiv(RMul(t, PI), RInt(2))))

ease_out_sine(t) == Sin(RDiv(RMul(t, PI), RInt(2)))

ease_in_out_sine(t) == RDiv(RNeg(RSub(Cos(RMul(PI, t)), One)), RInt(2))

c1 == Rat(170158, 100000)
c3 == RAdd(c1, One)
c2 == RMul(c1, Rat(1525, 1000))

ease_in_back(t) == RSub(RMul(c3, RPow3(t)), RMul(c1, RPow2(t)))

ease_out_back(t) ==
    RAdd(RAdd(One, RMul(c3, RPow3(RSub(t, One)))), RMul(c1, RPow2(RSub(t, One))))

ease_in_out_back(t) ==
    IF RLt(t, Half)
    THEN RDiv(RMul(RPow2(RMul(RInt(2), t)),
                   RSub(RMul(RMul(RAdd(c2, One), RInt(2)), t), c2)),
              RInt(2))
    ELSE RDiv(RAdd(RMul(RPow2(RSub(RMul(RInt(2), t), RInt(2))),
                        RAdd(RMul(RAdd(c2, One), RSub(RMul(t, RInt(2)), RInt(2))), c2)),
                   RInt(2)),
              RInt(2))

Easings ==
    {"linear", "ease_in_quad", "ease_out_quad", "ease_in_out_quad",
     "ease_in_cubic", "ease_out_cubic", "ease_in_out_cubic", "smooth",
     "ease_in_sine", "ease_out_sine", "ease_in_out_sine",
     "ease_in_back", "ease_out_back", "ease_in_out_back"}

(* self.easing(alpha): the bound easing function applied to a value.        *)
Ease(e, t) ==
    CASE e = "linear"            -> linear(t)
      [] e = "ease_in_quad"      -> ease_in_quad(t)
      [] e = "ease_out_quad"     -> ease_out_quad(t)
      [] e = "ease_in_out_quad"  -> ease_in_out_quad(t)
      [] e = "ease_in_cubic"     -> ease_in_cubic(t)
      [] e = "ease_out_cubic"    -> ease_out_cubic(t)
      [] e = "ease_in_out_cubic" -> ease_in_out_cubic(t)
      [] e = "smooth"            -> smooth(t)
      [] e = "ease_in_sine"      -> ease_in_sine(t)
      [] e = "ease_out_sine"     -> ease_out_sine(t)
      [] e = "ease_in_out_sine"  -> ease_in_out_sine(t)
      [] e = "ease_in_back"      -> ease_in_back(t)
      [] e = "ease_out_back"     -> ease_out_back(t)
      [] e = "ease_in_out_back"  -> ease_in_out_back(t)

-----------------------------------------------------------------------------
(* mobject.py: the animatable attributes of an MObject and its mutators.    *)

Objs == {1, 2}

(* MObject.__init__: scale 1, rotation 0, opacity 1; position, color, fill  *)
(* and stroke opacity come from the constructor arguments.                  *)
MObject(position, color, fill_opacity, stroke_opacity) ==
    [position       |-> position,
     scale_factor   |-> One,
     rotation       |-> Zero,
     opacity        |-> One,
     color          |-> color,
     fill_opacity   |-> fill_opacity,
     stroke_opacity |-> stroke_opacity]

VAdd(p, q) == <<RAdd(p[1], q[1]), RAdd(p[2], q[2])>>
VSub(p, q) == <<RSub(p[1], q[1]), RSub(p[2], q[2])>>
VScale(k, p) == <<RMul(k, p[1]), RMul(k, p[2])>>

Clamp01(x) == RMax(Zero, RMin(One, x))

MObjMoveTo(s, point)   == [s EXCEPT !.position = point]
MObjShift(s, delta)    == [s EXCEPT !.position = VAdd(s.position, delta)]
MObjScale(s, factor)   == [s EXCEPT !.scale_factor = RMul(s.scale_factor, factor)]
MObjRotate(s, angle)   == [s EXCEPT !.rotation = RAdd(s.rotation, angle)]
MObjSetColor(s, color) == [s EXCEPT !.color = color]
MObjSetOpacity(s, o)   == [s EXCEPT !.opacity = Clamp01(o)]
MObjSetFillOpacity(s, o)   == [s EXCEPT !.fill_opacity = Clamp01(o)]
MObjSetStrokeOpacity(s, o) == [s EXCEPT !.stroke_opacity = Clamp01(o)]

-----------------------------------------------------------------------------
(* animation.py, transform.py: Animation objects.                           *)
(* An Animation is a record; kind "Transform" is transform.py's class; the  *)
(* kinds "Move", "Scale", "Rotate", "FadeIn" and "FadeOut" are the classes  *)
(* of animations/move.py, scale.py, rotate.py and fade.py that              *)
(* AnimationBuilder.build constructs.                                       *)

EmptyDict == [empty |-> TRUE]

(* Animation.__init__ / Transform.__init__ *)
NewAnimation(kind, mobject, duration, easing, target_mobject, target, value) ==
    [kind           |-> kind,
     mobject        |-> mobject,
     duration       |-> duration,
     easing         |-> easing,
     target_mobject |-> target_mobject,
     target         |-> target,
     value          |-> value,
     initial_state  |-> EmptyDict,
     final_state    |-> EmptyDict,
     started        |-> FALSE]

NewTransform(mobject, target_mobject, duration, easing) ==
    NewAnimation("Transform", mobject, duration, easing, target_mobject, <<Zero, Zero>>, Zero)

(* Move(mobject, target=..., duration=..., easing=...) *)
NewMove(mobject, target, duration, easing) ==
    NewAnimation("Move", mobject, duration, easing, 0, target, Zero)

(* Scale(mobject, target_scale=..., duration=..., easing=...) *)
NewScale(mobject, target_scale, duration, easing) ==
    NewAnimation("Scale", mobject, duration, easing, 0, <<Zero, Zero>>, target_scale)

(* Rotate(mobject, angle=..., duration=..., easing=...) *)
NewRotate(mobject, angle, duration, easing) ==
    NewAnimation("Rotate", mobject, duration, easing, 0, <<Zero, Zero>>, angle)

(* FadeIn(mobject, duration=..., easing=...) *)
NewFadeIn(mobject, duration, easing) ==
    NewAnimation("FadeIn", mobject, duration, easing, 0, <<Zero, Zero>>, One)

(* FadeOut(mobject, duration=..., easing=...) *)
NewFadeOut(mobject, duration, easing) ==
    NewAnimation("FadeOut", mobject, duration, easing, 0, <<Zero, Zero>>, Zero)

(* Animation._capture_initial_state: six attributes, no color.              *)
BaseCaptureInitialState(s) ==
    [position       |-> s.position,
     scale_factor   |-> s.scale_factor,
     rotation       |-> s.rotation,
     opacity        |-> s.opacity,
     fill_opacity   |-> s.fill_opacity,
     stroke_opacity |-> s.stroke_opacity]

(* Transform._capture_initial_state / _capture_final_state: seven attributes *)
TransformCaptureState(s) ==
    [position       |-> s.position,
     scale_factor   |-> s.scale_factor,
     rotation       |-> s.rotation,
     opacity        |-> s.opacity,
     fill_opacity   |-> s.fill_opacity,
     stroke_opacity |-> s.stroke_opacity,
     color          |-> s.color]

CaptureInitialState(a, m) ==
    IF a.kind = "Transform" THEN TransformCaptureState(m[a.mobject])
    ELSE BaseCaptureInitialState(m[a.mobject])

(* _capture_final_state of each class: the reference object's attributes   *)
(* for Transform; the absolute target for Move and Scale; the present       *)
(* rotation plus the angle for Rotate; opacity 1 or 0 for the fades         *)
CaptureFinalState(a, m) ==
    CASE a.kind = "Transform" -> TransformCaptureState(m[a.target_mobject])
      [] a.kind = "Move"      -> [position |-> a.target]
      [] a.kind = "Scale"     -> [scale_factor |-> a.value]
      [] a.kind = "Rotate"    -> [rotation |-> RAdd(m[a.mobject].rotation, a.value)]
      [] a.kind = "FadeIn"    -> [opacity |-> One]
      [] a.kind = "FadeOut"   -> [opacity |-> Zero]

(* Animation.begin: captures both snapshots and marks the animation started *)
AnimBegin(a, m) ==
    [a EXCEPT !.initial_state = CaptureInitialState(a, m),
              !.final_state   = CaptureFinalState(a, m),
              !.started       = TRUE]

(* mutant of Lerp: the two ends swapped *)
LerpSwapped(start, end, alpha) == RAdd(end, RMul(alpha, RSub(start, end)))

(* start + alpha * (end - start) *)
Lerp(start, end, alpha) == RAdd(start, RMul(alpha, RSub(end, start)))

VLerp(start, end, alpha) == VAdd(start, VScale(alpha, VSub(end, start)))

(* transform.py: while diff > math.pi: diff -= 2 * math.pi *)
RECURSIVE WhileAbovePi(_)
WhileAbovePi(diff) ==
    IF RLt(PI, diff) THEN WhileAbovePi(RSub(diff, TwoPI)) ELSE diff

(* mutant of WhileBelowMinusPi: the loop also runs at exactly -pi *)
RECURSIVE WhileBelowMinusPiInclusive(_)
WhileBelowMinusPiInclusive(diff) ==
    IF RLe(diff, RNeg(PI)) THEN WhileBelowMinusPiInclusive(RAdd(diff, TwoPI)) ELSE diff

(* transform.py: while diff < -math.pi: diff += 2 * math.pi *)
RECURSIVE WhileBelowMinusPi(_)
WhileBelowMinusPi(diff) ==
    IF RLt(diff, RNeg(PI)) THEN WhileBelowMinusPi(RAdd(diff, TwoPI)) ELSE diff

NormalizeDiff(diff) == WhileBelowMinusPi(WhileAbovePi(diff))

(* mutant of TransformInterpolate: each step starts from the target's      *)
(* present attributes instead of the initial snapshot                       *)
TransformInterpolateFromCurrent(a, s, alpha) ==
    LET f == a.final_state
        diff == NormalizeDiff(RSub(f.rotation, s.rotation))
    IN  [s EXCEPT
            !.position       = VAdd(s.position, VScale(alpha, VSub(f.position, s.position))),
            !.scale_factor   = RAdd(s.scale_factor, RMul(alpha, RSub(f.scale_factor, s.scale_factor))),
            !.rotation       = RAdd(s.rotation, RMul(alpha, diff)),
            !.opacity        = RAdd(s.opacity, RMul(alpha, RSub(f.opacity, s.opacity))),
            !.fill_opacity   = RAdd(s.fill_opacity, RMul(alpha, RSub(f.fill_opacity, s.fill_opacity))),
            !.stroke_opacity = RAdd(s.stroke_opacity, RMul(alpha, RSub(f.stroke_opacity, s.stroke_opacity))),
            !.color          = <<RAdd(s.color[1], RMul(alpha, RSub(f.color[1], s.color[1]))),
                                 RAdd(s.color[2], RMul(alpha, RSub(f.color[2], s.color[2]))),
                                 RAdd(s.color[3], RMul(alpha, RSub(f.color[3], s.color[3])))>>]

(* Transform._interpolate: every attribute of the target is rewritten from  *)
(* the two snapshots.                                                       *)
TransformInterpolate(a, s, alpha) ==
    LET i == a.initial_state
        f == a.final_state
        diff == NormalizeDiff(RSub(f.rotation, i.rotation))
    IN  [s EXCEPT
            !.position       = VLerp(i.position, f.position, alpha),
            !.scale_factor   = Lerp(i.scale_factor, f.scale_factor, alpha),
            !.rotation       = RAdd(i.rotation, RMul(alpha, diff)),
            !.opacity        = Lerp(i.opacity, f.opacity, alpha),
            !.fill_opacity   = Lerp(i.fill_opacity, f.fill_opacity, alpha),
            !.stroke_opacity = Lerp(i.stroke_opacity, f.stroke_opacity, alpha),
            !.color          = <<Lerp(i.color[1], f.color[1], alpha),
                                 Lerp(i.color[2], f.color[2], alpha),
                                 Lerp(i.color[3], f.color[3], alpha)>>]

(* Move._interpolate: the position alone is rewritten.                      *)
MoveInterpolate(a, s, alpha) ==
    [s EXCEPT !.position = VLerp(a.initial_state.position, a.final_state.position, alpha)]

(* Scale._interpolate *)
ScaleInterpolate(a, s, alpha) ==
    [s EXCEPT !.scale_factor =
        Lerp(a.initial_state.scale_factor, a.final_state.scale_factor, alpha)]

(* Rotate._interpolate: along the shortest path, as for every rotation *)
RotateInterpolate(a, s, alpha) ==
    [s EXCEPT !.rotation =
        RAdd(a.initial_state.rotation,
             RMul(alpha, NormalizeDiff(RSub(a.final_state.rotation, a.initial_state.rotation))))]

(* FadeIn._interpolate, FadeOut._interpolate *)
FadeInterpolate(a, s, alpha) ==
    [s EXCEPT !.opacity = Lerp(a.initial_state.opacity, a.final_state.opacity, alpha)]

(* self._interpolate(eased_alpha), by class *)
SubInterpolate(a, s, alpha) ==
    CASE a.kind = "Transform" -> TransformInterpolate(a, s, alpha)
      [] a.kind = "Move"      -> MoveInterpolate(a, s, alpha)
      [] a.kind = "Scale"     -> ScaleInterpolate(a, s, alpha)
      [] a.kind = "Rotate"    -> RotateInterpolate(a, s, alpha)
      [] a.kind \in {"FadeIn", "FadeOut"} -> FadeInterpolate(a, s, alpha)

(* mutant of AnimInterpolate: the eased value is passed on unclamped *)
AnimInterpolateUnclamped(a, m, alpha) ==
    LET b == IF ~a.started THEN AnimBegin(a, m) ELSE a
        eased_alpha == Ease(b.easing, alpha)
    IN  [a |-> b,
         m |-> [m EXCEPT ![b.mobject] = SubInterpolate(b, m[b.mobject], eased_alpha)]]

(* mutant of AnimInterpolate: begin() runs on every call *)
AnimInterpolateAlwaysBegins(a, m, alpha) ==
    LET b == AnimBegin(a, m)
        eased_alpha == Clamp01(Ease(b.easing, alpha))
    IN  [a |-> b,
         m |-> [m EXCEPT ![b.mobject] = SubInterpolate(b, m[b.mobject], eased_alpha)]]

(* Animation.interpolate: begin if never started, ease, clamp, interpolate. *)
(* The result is the pair of the updated animation and the updated objects. *)
AnimInterpolate(a, m, alpha) ==
    LET b == IF ~a.started THEN AnimBegin(a, m) ELSE a
        eased_alpha == Clamp01(Ease(b.easing, alpha))
    IN  [a |-> b,
         m |-> [m EXCEPT ![b.mobject] = SubInterpolate(b, m[b.mobject], eased_alpha)]]

(* mutant of AnimFinish: the final interpolate(1.0) is left out *)
AnimFinishNoInterpolate(a, m) ==
    [a |-> IF ~a.started THEN AnimBegin(a, m) ELSE a, m |-> m]

(* Animation.finish: begin if never started, then interpolate(1.0).         *)
AnimFinish(a, m) ==
    LET b == IF ~a.started THEN AnimBegin(a, m) ELSE a
    IN  AnimInterpolate(b, m, One)

-----------------------------------------------------------------------------
(* animation.py: AnimationBuilder.  A builder is a record                   *)
(* [mobject, pending_operations]; an operation is a record [op, value].     *)

NoValue == << >>

(* MObject.animate / AnimationBuilder.__init__ *)
NewBuilder(mobject) == [mobject |-> mobject, pending_operations |-> << >>]

Queued(b, op, value) ==
    [b EXCEPT !.pending_operations = Append(@, [op |-> op, value |-> value])]

BuilderMoveTo(b, target)      == Queued(b, "move_to", target)
BuilderShift(b, delta)        == Queued(b, "shift", delta)
BuilderScale(b, factor)       == Queued(b, "scale", factor)
BuilderRotate(b, angle)       == Queued(b, "rotate", angle)
BuilderFadeIn(b)              == Queued(b, "fade_in", NoValue)
BuilderFadeOut(b)             == Queued(b, "fade_out", NoValue)
BuilderSetColor(b, color)     == Queued(b, "set_color", color)
BuilderSetOpacity(b, opacity) == Queued(b, "set_opacity", opacity)

(* mutant of BuildOne: the delta of a shift is taken as the target itself *)
BuildOneShiftAbsolute(b, o, duration, easing, m) ==
    CASE o.op \in {"move_to", "shift"} ->
                              <<NewMove(b.mobject, o.value, duration, easing)>>
      [] o.op = "scale"    -> <<NewScale(b.mobject, o.value, duration, easing)>>
      [] o.op = "rotate"   -> <<NewRotate(b.mobject, o.value, duration, easing)>>
      [] o.op = "fade_in"  -> <<NewFadeIn(b.mobject, duration, easing)>>
      [] o.op = "fade_out" -> <<NewFadeOut(b.mobject, duration, easing)>>
      [] OTHER             -> << >>

(* the animations one queued operation gives: one, or none for set_color    *)
(* and set_opacity; shift reads the object's position as it is now          *)
BuildOne(b, o, duration, easing, m) ==
    CASE o.op = "move_to"  -> <<NewMove(b.mobject, o.value, duration, easing)>>
      [] o.op = "shift"    -> <<NewMove(b.mobject, VAdd(m[b.mobject].position, o.value),
                                        duration, easing)>>
      [] o.op = "scale"    -> <<NewScale(b.mobject, o.value, duration, easing)>>
      [] o.op = "rotate"   -> <<NewRotate(b.mobject, o.value, duration, easing)>>
      [] o.op = "fade_in"  -> <<NewFadeIn(b.mobject, duration, easing)>>
      [] o.op = "fade_out" -> <<NewFadeOut(b.mobject, duration, easing)>>
      [] OTHER             -> << >>

(* mutant of BuildFrom: the queue is walked from its end *)
RECURSIVE BuildFromReversed(_, _, _, _, _)
BuildFromReversed(b, k, duration, easing, m) ==
    IF k > Len(b.pending_operations) THEN << >>
    ELSE BuildFromReversed(b, k + 1, duration, easing, m)
            \o BuildOne(b, b.pending_operations[k], duration, easing, m)

(* mutant of BuildFrom: a shift is resolved from the target of the shift   *)
(* before it                                                                *)
RECURSIVE BuildFromCumulative(_, _, _, _, _)
BuildFromCumulative(b, k, duration, easing, m) ==
    IF k > Len(b.pending_operations) THEN << >>
    ELSE LET o == b.pending_operations[k]
             one == BuildOne(b, o, duration, easing, m)
             moved == IF o.op = "shift"
                      THEN [m EXCEPT ![b.mobject] = MObjMoveTo(@, one[1].target)]
                      ELSE m
         IN  one \o BuildFromCumulative(b, k + 1, duration, easing, moved)

RECURSIVE BuildFrom(_, _, _, _, _)
BuildFrom(b, k, duration, easing, m) ==
    IF k > Len(b.pending_operations) THEN << >>
    ELSE BuildOne(b, b.pending_operations[k], duration, easing, m)
            \o BuildFrom(b, k + 1, duration, easing, m)

(* mutant of Build: the queue is not cleared *)
BuildKeepsQueue(b, duration, easing, m) ==
    [animations |-> BuildFrom(b, 1, duration, easing, m),
     builder    |-> b]

(* AnimationBuilder.build: the animations of the queue, in order, and the   *)
(* builder with its queue cleared                                           *)
Build(b, duration, easing, m) ==
    [animations |-> BuildFrom(b, 1, duration, easing, m),
     builder    |-> [b EXCEPT !.pending_operations = << >>]]

-----------------------------------------------------------------------------
(* core/timeline.py: the Timeline scheduler.  A block is a record            *)
(* [animations, duration]; animations holds indices into anims.             *)

DEFAULT_FPS == 60

(* AnimationBlock(animations, duration, sequential): the flag changes nothing *)
NewBlock(animations, duration, sequential) ==
    [animations |-> animations, duration |-> duration]

(* Timeline.add_block: appends one block *)
add_block(bs, animations, duration, sequential) ==
    Append(bs, NewBlock(animations, duration, sequential))

(* Timeline.add_parallel: appends one block holding the animations *)
add_parallel(bs, animations, duration) ==
    add_block(bs, animations, duration, FALSE)

(* Timeline.reset: no blocks *)
reset(bs) == << >>

RECURSIVE SumDurations(_)
SumDurations(bs) ==
    IF bs = << >> THEN Zero
    ELSE RAdd(SumDurations(SubSeq(bs, 1, Len(bs) - 1)), bs[Len(bs)].duration)

(* mutant of total_frames: the sum of the blocks' own rounded frame spans *)
RECURSIVE total_framesBySpans(_, _)
total_framesBySpans(bs, f) ==
    IF bs = << >> THEN 0
    ELSE total_framesBySpans(SubSeq(bs, 1, Len(bs) - 1), f)
            + Round(RMul(bs[Len(bs)].duration, RInt(f)))

(* Timeline.total_frames: round(sum(block.duration) * fps) *)
total_frames(bs, f) == Round(RMul(SumDurations(bs), RInt(f)))

(* frame_span = round(block.duration * fps) *)
frame_span(b, f) == Round(RMul(b.duration, RInt(f)))

(* offset_0 = 0, offset_i = offset_(i-1) + frame_span_(i-1) *)
RECURSIVE offset(_, _, _)
offset(bs, i, f) ==
    IF i = 1 THEN 0 ELSE offset(bs, i - 1, f) + frame_span(bs[i - 1], f)

InSpan(bs, i, f, fr) ==
    offset(bs, i, f) <= fr /\ fr < offset(bs, i, f) + frame_span(bs[i], f)

(* the block whose span contains the frame, 0 when there is none *)
BlockAt(bs, f, fr) ==
    IF \E i \in 1..Len(bs) : InSpan(bs, i, f, fr)
    THEN CHOOSE i \in 1..Len(bs) : InSpan(bs, i, f, fr)
    ELSE 0

(* mutant of Progress: the time since the start of the timeline, not of the block *)
ProgressGlobalTime(an, idx, bs, i, f, fr) ==
    IF an[idx].duration = Zero THEN One
    ELSE RDiv(Rat(fr, f), an[idx].duration)

(* progress = local_time / animation.duration, 1.0 for a duration of 0 *)
Progress(an, idx, bs, i, f, fr) ==
    IF an[idx].duration = Zero THEN One
    ELSE RDiv(Rat(fr - offset(bs, i, f), f), an[idx].duration)

(* Timeline.get_active_animations: the (animation, progress) pairs of the   *)
(* block the frame lies in, an empty list outside every block               *)
get_active_animations(bs, an, f, fr) ==
    LET i == BlockAt(bs, f, fr)
    IN  IF i = 0 THEN << >>
        ELSE [k \in 1..Len(bs[i].animations) |->
                <<bs[i].animations[k], Progress(an, bs[i].animations[k], bs, i, f, fr)>>]

-----------------------------------------------------------------------------
(* scene.py: Scene.                                                         *)

(* mutant of SceneAddOne: the object is appended without the membership test *)
SceneAddOneAlways(ms, o) == Append(ms, o)

(* Scene.add of one object *)
SceneAddOne(ms, o) ==
    IF \E k \in 1..Len(ms) : ms[k] = o THEN ms ELSE Append(ms, o)

(* Scene.remove of one object: list.remove drops its first occurrence *)
SceneRemoveOne(ms, o) ==
    IF \E k \in 1..Len(ms) : ms[k] = o
    THEN LET k == CHOOSE i \in 1..Len(ms) :
                      ms[i] = o /\ \A j \in 1..(i - 1) : ms[j] # o
         IN  SubSeq(ms, 1, k - 1) \o SubSeq(ms, k + 1, Len(ms))
    ELSE ms

(* Scene.add of its arguments: the loop over them *)
RECURSIVE SceneAdd(_, _)
SceneAdd(ms, objs) ==
    IF objs = << >> THEN ms
    ELSE SceneAdd(SceneAddOne(ms, Head(objs)), Tail(objs))

(* Scene.remove of its arguments: the loop over them *)
RECURSIVE SceneRemove(_, _)
SceneRemove(ms, objs) ==
    IF objs = << >> THEN ms
    ELSE SceneRemove(SceneRemoveOne(ms, Head(objs)), Tail(objs))

(* mutant of SceneClear: the timeline is not reset *)
SceneClearObjectsOnly(ms, bs) == [mobjects |-> << >>, blocks |-> bs]

(* Scene.clear: mobjects.clear() and timeline.reset() *)
SceneClear(ms, bs) == [mobjects |-> << >>, blocks |-> reset(bs)]

(* mutant of RMaxOver: the least of the durations *)
RMinOver(an, idxs) ==
    LET RECURSIVE M(_)
        M(k) == IF k = 1 THEN an[idxs[1]].duration
                ELSE RMin(M(k - 1), an[idxs[k]].duration)
    IN  M(Len(idxs))

(* max(anim.duration for anim in animation_list) *)
RMaxOver(an, idxs) ==
    LET RECURSIVE M(_)
        M(k) == IF k = 1 THEN an[idxs[1]].duration
                ELSE RMax(M(k - 1), an[idxs[k]].duration)
    IN  M(Len(idxs))

(* the loop of Scene.play over its arguments.  An argument is a record      *)
(* [tag, anim, builder]: an Animation object (a fresh one, not yet in       *)
(* anims), an AnimationBuilder (an index into builders) or anything else.   *)
(* st is [anims, builders, animation_list, raised].                         *)
RECURSIVE PlayLoop(_, _, _, _, _, _)
PlayLoop(args, k, duration, easing, m, st) ==
    IF k > Len(args) THEN st
    ELSE LET arg == args[k] IN
         CASE arg.tag = "AnimationBuilder" ->
                LET built == Build(st.builders[arg.builder], duration, easing, m)
                    n == Len(st.anims)
                IN  PlayLoop(args, k + 1, duration, easing, m,
                        [st EXCEPT
                            !.anims = @ \o built.animations,
                            !.builders = [@ EXCEPT ![arg.builder] = built.builder],
                            !.animation_list =
                                @ \o [j \in 1..Len(built.animations) |-> n + j]])
           [] arg.tag = "Animation" /\ ~arg.again ->
                PlayLoop(args, k + 1, duration, easing, m,
                        [st EXCEPT
                            !.anims = Append(@, arg.anim),
                            !.animation_list = Append(@, Len(st.anims) + 1)])
           [] arg.tag = "Animation" /\ arg.again ->
                PlayLoop(args, k + 1, duration, easing, m,
                        [st EXCEPT !.animation_list = Append(@, Len(st.anims))])
           [] OTHER -> [st EXCEPT !.raised = TRUE]

(* mutant of ScenePlay: the block is appended although the loop raised *)
ScenePlayAppendsWhenRaised(args, duration, easing, an, bu, bs, m) ==
    LET st == PlayLoop(args, 1, duration, easing, m,
                       [anims |-> an, builders |-> bu, animation_list |-> << >>,
                        raised |-> FALSE])
        added == st.animation_list # << >>
    IN  [anims    |-> IF added THEN st.anims ELSE an,
         builders |-> st.builders,
         raised   |-> st.raised,
         blocks   |-> IF added
                      THEN add_parallel(bs, st.animation_list,
                                        RMaxOver(st.anims, st.animation_list))
                      ELSE bs]

(* mutant of ScenePlay: a block is appended for an empty animation_list too *)
ScenePlayAppendsEmpty(args, duration, easing, an, bu, bs, m) ==
    LET st == PlayLoop(args, 1, duration, easing, m,
                       [anims |-> an, builders |-> bu, animation_list |-> << >>,
                        raised |-> FALSE])
        added == ~st.raised
    IN  [anims    |-> IF added THEN st.anims ELSE an,
         builders |-> st.builders,
         raised   |-> st.raised,
         blocks   |-> IF added
                      THEN add_parallel(bs, st.animation_list,
                                        IF st.animation_list = << >> THEN duration
                                        ELSE RMaxOver(st.anims, st.animation_list))
                      ELSE bs]

(* Scene.play: [anims, builders, blocks, raised] after the call.  Animations *)
(* built for a call that appends no block are referenced by nothing and are *)
(* not kept in anims.                                                       *)
ScenePlay(args, duration, easing, an, bu, bs, m) ==
    LET st == PlayLoop(args, 1, duration, easing, m,
                       [anims |-> an, builders |-> bu, animation_list |-> << >>,
                        raised |-> FALSE])
        added == ~st.raised /\ st.animation_list # << >>
    IN  [anims    |-> IF added THEN st.anims ELSE an,
         builders |-> st.builders,
         raised   |-> st.raised,
         blocks   |-> IF added
                      THEN add_parallel(bs, st.animation_list,
                                        RMaxOver(st.anims, st.animation_list))
                      ELSE bs]

(* Scene.wait: an empty block *)
SceneWait(bs, duration) == add_block(bs, << >>, duration, FALSE)

-----------------------------------------------------------------------------
(* renderer.py: CairoRenderer.render_scene, a generator.  Its code up to    *)
(* the frame loop, each pass of the loop and its code after the loop are    *)
(* the steps; render_frame only reads the objects.                          *)

RECURSIVE Flatten(_)
Flatten(bs) ==
    IF bs = << >> THEN << >>
    ELSE Flatten(SubSeq(bs, 1, Len(bs) - 1)) \o bs[Len(bs)].animations

(* for block, _ in blocks: for anim in block.animations: anim.begin() *)
RECURSIVE BeginAll(_, _, _, _)
BeginAll(idxs, k, an, m) ==
    IF k > Len(idxs) THEN an
    ELSE BeginAll(idxs, k + 1, [an EXCEPT ![idxs[k]] = AnimBegin(an[idxs[k]], m)], m)

(* for anim, alpha in active_animations: anim.interpolate(alpha) *)
RECURSIVE InterpolateAll(_, _, _, _)
InterpolateAll(active, k, an, m) ==
    IF k > Len(active) THEN [anims |-> an, mob |-> m]
    ELSE LET r == AnimInterpolate(an[active[k][1]], m, active[k][2])
         IN  InterpolateAll(active, k + 1, [an EXCEPT ![active[k][1]] = r.a], r.m)

(* for block, _ in blocks: for anim in block.animations: anim.finish() *)
RECURSIVE FinishAll(_, _, _, _)
FinishAll(idxs, k, an, m) ==
    IF k > Len(idxs) THEN [anims |-> an, mob |-> m]
    ELSE LET r == AnimFinish(an[idxs[k]], m)
         IN  FinishAll(idxs, k + 1, [an EXCEPT ![idxs[k]] = r.a], r.m)

Occurrences(idxs, x) == Cardinality({k \in 1..Len(idxs) : idxs[k] = x})

-----------------------------------------------------------------------------
(* Bounds and input sets.                                                   *)

MaxBegins    == 1    \* explicit begin() calls in the lifecycle specification
MaxMutations == 1    \* external mutations of an object in the lifecycle specification
MaxBlocks    == 3    \* blocks on the timeline in the timeline specification
MaxPlays     == 2    \* blocks a scene's construct() appends
MaxBuilders  == 1    \* builders a scene's construct() holds
MaxRenders   == 1    \* render_scene passes over one scene
MaxOps       == 2    \* operations queued on the builder in the builder specification
MaxBuilds    == 2    \* build() calls in the builder specification

WHITE == <<One, One, One>>
RED   == <<One, Zero, Zero>>

ORIGIN == <<Zero, Zero>>
RIGHT  == <<One, Zero>>
UP     == <<Zero, One>>

(* (target rotation, reference rotation) in units of pi: the differences  *)
(* are -1, 1, 3, -3, 1/2 and 7/2; the eased transforms start from the fifth *)
RotPairs ==
    {<<Zero, RInt(-1)>>, <<Zero, One>>, <<RInt(-1), RInt(2)>>, <<RInt(2), RInt(-1)>>,
     <<Zero, Half>>, <<Rat(-3, 2), RInt(2)>>}

(* objects as the lifecycle specification finds them: constructed, then     *)
(* turned (and, for the second shape, scaled and dimmed) by the mutators    *)
PlainObject(rot) ==
    MObjRotate(MObject(ORIGIN, WHITE, Zero, One), rot)

StyledObject(rot) ==
    MObjRotate(MObjSetOpacity(MObjScale(MObject(<<RInt(3), One>>, RED, One, Half), Half), Half), rot)

UnitEasings == {"linear", "ease_in_quad", "ease_out_back"}

(* progress values handed to interpolate, some outside [0, 1]               *)
Alphas == {Zero, Half, One, Rat(-1, 2), Rat(3, 2)}

UnitTransforms == {NewTransform(1, 2, One, e) : e \in UnitEasings}
UnitMoves      == {NewMove(1, <<RInt(3), Zero>>, One, "ease_in_quad")}

(* history of the last call: its kind, animation and progress; for         *)
(* begin(), whether the animation was started already and the snapshots it  *)
(* held; for interpolate(), whether the call before was an interpolate()    *)
(* of the same animation ("same" progress or "other"), else "none"; for    *)
(* the timeline calls, "reset" once the timeline has been reset; for play(), *)
(* wait() and build(), the call made (an index of the catalogue of calls),  *)
(* its duration and easing; for the builder's calls, the queue they found;  *)
(* for add(), remove() and clear(), the objects given and the list found,   *)
(* and, kept from call to call, the objects present in the order of their   *)
(* most recent insertion that took effect                                   *)
NoLast == [op |-> "none", anim |-> 0, alpha |-> Zero, was_started |-> FALSE,
           prev_initial |-> EmptyDict, prev_final |-> EmptyDict, after |-> "none",
           call |-> 0, duration |-> Zero, easing |-> "none", queue |-> << >>,
           objects |-> << >>, found |-> << >>, inserted |-> << >>,
           value |-> Zero, passes |-> 0]

-----------------------------------------------------------------------------
(* The lifecycle specification: one Animation driven by any sequence of     *)
(* begin(), interpolate(progress), finish() and external mutations.         *)

InitAnim ==
    /\ \/ \E rp \in RotPairs, a \in UnitTransforms :
              /\ a.easing = "linear" \/ rp = <<Zero, Half>>
              /\ mob = <<PlainObject(rp[1]), StyledObject(rp[2])>>
              /\ anims = <<a>>
       \/ \E a \in UnitMoves :
              /\ mob = <<PlainObject(Half), StyledObject(Zero)>>
              /\ anims = <<a>>
    /\ blocks = <<>>
    /\ fps = 1
    /\ phase = "unit"
    /\ frame = 0
    /\ total = 0
    /\ renders = 0
    /\ nfinish = << >>
    /\ mobjects = << >>
    /\ builders = << >>
    /\ nbegin = 0
    /\ nmut = 0
    /\ nops = 0
    /\ nbuild = 0
    /\ durSum = Zero
    /\ last = NoLast

CallBegin ==
    /\ phase = "unit"
    /\ nbegin < MaxBegins
    /\ anims' = <<AnimBegin(anims[1], mob)>>
    /\ nbegin' = nbegin + 1
    /\ last' = [NoLast EXCEPT !.op = "begin", !.anim = 1,
                              !.was_started = anims[1].started,
                              !.prev_initial = anims[1].initial_state,
                              !.prev_final = anims[1].final_state]
    /\ UNCHANGED <<mob, sceneVars, timelineVars, phase, renderVars, nmut, nops, nbuild>>

CallInterpolate ==
    /\ phase = "unit"
    /\ \E alpha \in Alphas :
        LET r == AnimInterpolate(anims[1], mob, alpha)
        IN  /\ anims' = <<r.a>>
            /\ mob' = r.m
            /\ last' = [NoLast EXCEPT !.op = "interpolate", !.anim = 1, !.alpha = alpha,
                                      !.after = IF last.op # "interpolate" THEN "none"
                                                ELSE IF last.alpha = alpha THEN "same"
                                                ELSE "other"]
    /\ UNCHANGED <<sceneVars, timelineVars, phase, renderVars, unitVars>>

CallFinish ==
    /\ phase = "unit"
    /\ LET r == AnimFinish(anims[1], mob)
       IN  /\ anims' = <<r.a>>
           /\ mob' = r.m
           /\ last' = [NoLast EXCEPT !.op = "finish", !.anim = 1, !.alpha = One]
    /\ UNCHANGED <<sceneVars, timelineVars, phase, renderVars, unitVars>>

(* what a caller may do to an object between the calls: its geometry       *)
(* mutators, then its style mutators, in a row                              *)
Mutations(s) ==
    {MObjSetStrokeOpacity(MObjSetFillOpacity(MObjSetOpacity(MObjSetColor(
         MObjRotate(MObjScale(MObjShift(MObjMoveTo(s, UP), RIGHT), RInt(2)), Half),
         <<Zero, Half, One>>), Rat(1, 4)), Rat(3, 4)), RInt(2))}

Mutate ==
    /\ phase = "unit"
    /\ nmut < MaxMutations
    /\ \E o \in Objs : \E s \in Mutations(mob[o]) :
        mob' = [mob EXCEPT ![o] = s]
    /\ nmut' = nmut + 1
    /\ last' = [NoLast EXCEPT !.op = "mutate"]
    /\ UNCHANGED <<anims, sceneVars, timelineVars, phase, renderVars, nbegin, nops, nbuild>>

NextAnim ==
    \/ CallBegin
    \/ CallInterpolate
    \/ CallFinish
    \/ Mutate

SpecAnim == InitAnim /\ [][NextAnim]_vars

-----------------------------------------------------------------------------
(* Claims on the Animation lifecycle, checked under SpecAnim.               *)

(* the attributes an animation writes, as a record *)
Animated(a, s) ==
    IF a.kind = "Transform" THEN TransformCaptureState(s)
    ELSE [position |-> s.position]

(* the same attributes of a snapshot *)
AnimatedOf(a, snap) ==
    IF a.kind = "Transform" THEN snap
    ELSE [position |-> snap.position]

IsMultipleOfTwoPi(x) == RDiv(x, TwoPI)[2] = 1

IsOddMultipleOfPi(x) == RDiv(x, PI)[2] = 1 /\ RDiv(x, PI)[1] % 2 = 1

(* C4: a begin() call made when the animation is already started leaves     *)
(* the `initial` and `final` snapshots unchanged.                           *)
C4_BeginWhenStartedKeepsSnapshots ==
    (last.op = "begin" /\ last.was_started) =>
        /\ anims[1].initial_state = last.prev_initial
        /\ anims[1].final_state = last.prev_final

(* states a target may be in when interpolate() is called *)
ProbeStates == {PlainObject(Zero), StyledObject(One), mob[1], mob[2]}

(* C5: once started, what interpolate(a) writes depends only on (initial,   *)
(* final, a): the state left by the last interpolate(a), whatever calls     *)
(* came before it, is what one interpolate(a) writes from any target state, *)
(* the present one included (a second call changes nothing).                *)
C5_InterpolateDependsOnSnapshotsOnly ==
    last.op = "interpolate" =>
        \A s \in ProbeStates :
            LET a == anims[1]
                r == AnimInterpolate(a, [mob EXCEPT ![a.mobject] = s], last.alpha)
            IN  /\ Animated(a, r.m[a.mobject]) = Animated(a, mob[a.mobject])
                /\ r.a = a

C5_Witness ==
    /\ last.op = "interpolate"
    /\ last.after = "other"
    /\ last.alpha = Half
    /\ anims[1].kind = "Transform"
    /\ anims[1].easing = "ease_in_quad"
    /\ mob[1].scale_factor = Rat(7, 8)

C5_WitnessTwice ==
    /\ last.op = "interpolate"
    /\ last.after = "same"
    /\ last.alpha = Half

C7_InterpolateZeroReproducesInitial ==
    (last.op = "interpolate" /\ last.alpha = Zero /\ Ease(anims[1].easing, Zero) = Zero) =>
        Animated(anims[1], mob[1]) = AnimatedOf(anims[1], anims[1].initial_state)

C7_Witness ==
    /\ last.op = "interpolate"
    /\ last.alpha = Zero
    /\ last.after = "other"
    /\ anims[1].kind = "Transform"
    /\ Ease(anims[1].easing, Zero) = Zero
    /\ mob[1].position = ORIGIN

(* the raw and the normalized rotation difference of a started Transform *)
RawDiff(a) == RSub(a.final_state.rotation, a.initial_state.rotation)

(* C8, as stated: the normalized difference lies in (-pi, pi] and differs   *)
(* from final.rotation - initial.rotation by a multiple of 2 pi.            *)
C8_NormalizedDiffHalfOpen ==
    (anims[1].kind = "Transform" /\ anims[1].started) =>
        LET d == NormalizeDiff(RawDiff(anims[1]))
        IN  /\ RLt(RNeg(PI), d)
            /\ RLe(d, PI)
            /\ IsMultipleOfTwoPi(RSub(d, RawDiff(anims[1])))

(* C8, amended: the normalized difference lies in the closed interval       *)
(* [-pi, pi] and differs from final.rotation - initial.rotation by a        *)
(* multiple of 2 pi; an odd multiple of pi normalizes to the bound of its   *)
(* own sign (-pi and -3 pi to -pi, pi and 3 pi to pi).                      *)
C8_NormalizedDiffClosed ==
    (anims[1].kind = "Transform" /\ anims[1].started) =>
        LET raw == RawDiff(anims[1])
            d == NormalizeDiff(raw)
        IN  /\ RLe(RNeg(PI), d)
            /\ RLe(d, PI)
            /\ IsMultipleOfTwoPi(RSub(d, raw))
            /\ IsOddMultipleOfPi(raw) => d = (IF RLt(raw, Zero) THEN RNeg(PI) ELSE PI)

C8_Witness ==
    /\ anims[1].kind = "Transform"
    /\ anims[1].started
    /\ RawDiff(anims[1]) = RInt(-3)
    /\ last.op = "finish"
    /\ mob[1].rotation = One

-----------------------------------------------------------------------------
(* The timeline specification: a Timeline driven through its own interface. *)

FpsVals == {1, 2, 3}

DurVals == {Zero, Rat(1, 4), One}

(* the own durations of the animations handed over with a block of duration d *)
AnimDurations(d) == {<<d>>, <<d, Zero>>, <<One, d>>}

(* Move animations of object 1 with the given durations, as fresh objects *)
FreshMoves(durs) ==
    [k \in 1..Len(durs) |-> NewMove(1, RIGHT, durs[k], "linear")]

InitTimeline ==
    /\ mob = <<PlainObject(Zero), StyledObject(Zero)>>
    /\ anims = << >>
    /\ blocks = << >>
    /\ fps \in FpsVals
    /\ phase = "api"
    /\ frame = 0
    /\ total = 0
    /\ renders = 0
    /\ nfinish = << >>
    /\ mobjects = << >>
    /\ builders = << >>
    /\ nbegin = 0
    /\ nmut = 0
    /\ nops = 0
    /\ nbuild = 0
    /\ durSum = Zero
    /\ last = NoLast

AddParallel ==
    /\ phase = "api"
    /\ Len(blocks) < MaxBlocks
    /\ \E d \in DurVals : \E durs \in AnimDurations(d) :
        /\ anims' = anims \o FreshMoves(durs)
        /\ blocks' = add_parallel(blocks, [k \in 1..Len(durs) |-> Len(anims) + k], d)
        /\ durSum' = RAdd(durSum, d)
    /\ last' = [NoLast EXCEPT !.op = "add_parallel", !.after = last.after]
    /\ UNCHANGED <<mob, sceneVars, fps, phase, renderVars, unitVars>>

AddBlock ==
    /\ phase = "api"
    /\ Len(blocks) < MaxBlocks
    /\ \E d \in DurVals : \E sequential \in BOOLEAN :
        /\ blocks' = add_block(blocks, << >>, d, sequential)
        /\ durSum' = RAdd(durSum, d)
    /\ last' = [NoLast EXCEPT !.op = "add_block", !.after = last.after]
    /\ UNCHANGED <<mob, anims, sceneVars, fps, phase, renderVars, unitVars>>

(* reset: the animations of the dropped blocks are no longer reachable *)
Reset ==
    /\ phase = "api"
    /\ blocks # << >>
    /\ blocks' = reset(blocks)
    /\ anims' = << >>
    /\ durSum' = Zero
    /\ last' = [NoLast EXCEPT !.op = "reset", !.after = "reset"]
    /\ UNCHANGED <<mob, sceneVars, fps, phase, renderVars, unitVars>>

NextTimeline ==
    \/ AddParallel
    \/ AddBlock
    \/ Reset

SpecTimeline == InitTimeline /\ [][NextTimeline]_vars

-----------------------------------------------------------------------------
(* Claims on the Timeline, checked under SpecTimeline.                      *)

BlocksHolding(fr) == {i \in 1..Len(blocks) : InSpan(blocks, i, fps, fr)}

(* C1: every frame of [0, total_frames) lies in the span                    *)
(* [offset_i, offset_i + frame_span_i) of exactly one block.                *)
C1_EveryFrameInExactlyOneBlock ==
    \A fr \in 0..(total_frames(blocks, fps) - 1) : Cardinality(BlocksHolding(fr)) = 1

(* C9: total_frames() is round(fps * sum of the durations of the blocks     *)
(* added since the last reset); 2.0 s and 0.5 s at 60 fps give 150.         *)
C9_TotalFramesIsRoundedSum ==
    /\ total_frames(blocks, fps) = Round(RMul(durSum, RInt(fps)))
    /\ total_frames(add_block(add_parallel(<< >>, << >>, RInt(2)), << >>, Half, FALSE),
                    DEFAULT_FPS) = 150

C9_Witness ==
    /\ last.after = "reset"
    /\ Len(blocks) = 3
    /\ durSum = Rat(3, 4)
    /\ fps = 2
    /\ total_frames(blocks, fps) = 2

FramesOf(i) ==
    offset(blocks, i, fps) .. (offset(blocks, i, fps) + frame_span(blocks[i], fps) - 1)

LocalTime(i, fr) == Rat(fr - offset(blocks, i, fps), fps)

(* C10, as stated: on every frame inside block i get_active_animations      *)
(* returns the animations of block i, each once and in order, with          *)
(* progress = local_time / animation.duration, which is 0 on the block's    *)
(* first frame; a wait block gives the empty list.                          *)
C10_ActiveAnimationsOfBlock ==
    \A i \in 1..Len(blocks) : \A fr \in FramesOf(i) :
        LET r == get_active_animations(blocks, anims, fps, fr)
            own == blocks[i].animations
        IN  /\ Len(r) = Len(own)
            /\ \A k \in 1..Len(own) :
                /\ r[k][1] = own[k]
                /\ RMul(r[k][2], anims[own[k]].duration) = LocalTime(i, fr)
                /\ fr = offset(blocks, i, fps) => r[k][2] = Zero
            /\ \A k, l \in 1..Len(r) : k # l => r[k][1] # r[l][1]

(* C10, amended: as above for the animations whose own duration is not 0;   *)
(* an animation of duration 0 is reported with progress 1 on every frame    *)
(* of its block, the first included.                                        *)
C10_ActiveAnimationsOfBlockZeroAsOne ==
    \A i \in 1..Len(blocks) : \A fr \in FramesOf(i) :
        LET r == get_active_animations(blocks, anims, fps, fr)
            own == blocks[i].animations
        IN  /\ Len(r) = Len(own)
            /\ \A k \in 1..Len(own) :
                /\ r[k][1] = own[k]
                /\ IF anims[own[k]].duration = Zero
                   THEN r[k][2] = One
                   ELSE /\ RMul(r[k][2], anims[own[k]].duration) = LocalTime(i, fr)
                        /\ fr = offset(blocks, i, fps) => r[k][2] = Zero
            /\ \A k, l \in 1..Len(r) : k # l => r[k][1] # r[l][1]

C10_Witness ==
    /\ fps = 3
    /\ Len(blocks) = 3
    /\ blocks[1].animations = << >>
    /\ frame_span(blocks[1], fps) = 1
    /\ Len(blocks[3].animations) = 2
    /\ anims[blocks[3].animations[2]].duration = Zero
    /\ frame_span(blocks[3], fps) = 3
    /\ get_active_animations(blocks, anims, fps, offset(blocks, 3, fps) + 2)
         = <<<<blocks[3].animations[1], Rat(2, 3)>>, <<blocks[3].animations[2], One>>>>

-----------------------------------------------------------------------------
(* The scene specification: construct() queues builders, plays and waits;   *)
(* render_scene then runs over the scene.                                   *)

RenderFps == {2, 3}

WaitVals == {Half, One}

AllWaitVals == WaitVals \cup {Rat(-1, 2)}

BuilderChainIds == 1..4

(* obj.animate.<operation>(...)... as construct() writes it *)
BuilderChain(c) ==
    CASE c = 1 -> BuilderMoveTo(NewBuilder(1), <<RInt(3), Zero>>)
      [] c = 2 -> BuilderScale(BuilderShift(NewBuilder(1), RIGHT), RInt(2))
      [] c = 3 -> BuilderSetOpacity(BuilderSetColor(NewBuilder(2), RED), Half)
      [] c = 4 -> BuilderFadeOut(BuilderRotate(NewBuilder(2), Rat(3, 2)))

AnimationArg(a) == [tag |-> "Animation", anim |-> a, builder |-> 0, again |-> FALSE]
BuilderArg(b)   == [tag |-> "AnimationBuilder", anim |-> EmptyDict, builder |-> b, again |-> FALSE]
OtherArg        == [tag |-> "other", anim |-> EmptyDict, builder |-> 0, again |-> FALSE]

(* the Animation object made last, passed to play() once more *)
SameAnimationArg == [tag |-> "Animation", anim |-> EmptyDict, builder |-> 0, again |-> TRUE]

(* the calls construct() makes in the scene specification, and all the      *)
(* calls of the catalogue                                                   *)
PlayCallIds == 1..7

AllPlayCallIds == 1..12

(* the calls of the scenes that are rendered to the end *)
RenderPlayCallIds == {1, 3, 7, 13}

(* the play(...) calls of construct(): [args, duration, easing, needs],     *)
(* needs being the number of builders the call refers to                    *)
PlayCall(c) ==
    CASE c = 1 -> [args |-> <<AnimationArg(NewMove(1, <<RInt(3), Zero>>, One, "linear"))>>,
                   duration |-> One, easing |-> "linear", needs |-> 0]
      [] c = 2 -> [args |-> <<AnimationArg(NewTransform(1, 2, Half, "smooth"))>>,
                   duration |-> One, easing |-> "linear", needs |-> 0]
      [] c = 3 -> [args |-> <<AnimationArg(NewMove(2, ORIGIN, One, "linear")),
                              AnimationArg(NewScale(1, RInt(2), Half, "ease_in_quad"))>>,
                   duration |-> One, easing |-> "linear", needs |-> 0]
      [] c = 4 -> [args |-> <<BuilderArg(1)>>,
                   duration |-> Half, easing |-> "smooth", needs |-> 1]
      [] c = 5 -> [args |-> <<BuilderArg(1), OtherArg>>,
                   duration |-> One, easing |-> "linear", needs |-> 1]
      [] c = 6 -> [args |-> <<OtherArg>>,
                   duration |-> One, easing |-> "linear", needs |-> 0]
      [] c = 7 -> [args |-> <<AnimationArg(NewMove(2, ORIGIN, Zero, "linear"))>>,
                   duration |-> One, easing |-> "linear", needs |-> 0]
      [] c = 8 -> [args |-> <<AnimationArg(NewMove(1, <<RInt(3), Zero>>, One, "linear")),
                              OtherArg>>,
                   duration |-> One, easing |-> "linear", needs |-> 0]
      [] c = 9 -> [args |-> <<OtherArg, BuilderArg(1)>>,
                   duration |-> One, easing |-> "linear", needs |-> 1]
      [] c = 10 -> [args |-> <<BuilderArg(1)>>,
                    duration |-> Rat(-1, 2), easing |-> "linear", needs |-> 1]
      [] c = 11 -> [args |-> <<BuilderArg(1),
                               AnimationArg(NewMove(2, ORIGIN, One, "linear"))>>,
                    duration |-> Half, easing |-> "ease_in_quad", needs |-> 1]
      [] c = 12 -> [args |-> << >>,
                    duration |-> Half, easing |-> "linear", needs |-> 0]
      [] c = 13 -> [args |-> <<SameAnimationArg>>,
                    duration |-> One, easing |-> "linear", needs |-> 0]

Init ==
    /\ mob = <<PlainObject(Zero), StyledObject(Half)>>
    /\ anims = << >>
    /\ mobjects = << >>
    /\ builders = << >>
    /\ blocks = << >>
    /\ fps = DEFAULT_FPS
    /\ durSum = Zero
    /\ phase = "construct"
    /\ frame = 0
    /\ total = 0
    /\ renders = 0
    /\ nfinish = << >>
    /\ nbegin = 0
    /\ nmut = 0
    /\ nops = 0
    /\ nbuild = 0
    /\ last = NoLast

Animate ==
    /\ phase = "construct"
    /\ Len(builders) < MaxBuilders
    /\ \E c \in BuilderChainIds : builders' = Append(builders, BuilderChain(c))
    /\ last' = [NoLast EXCEPT !.op = "animate"]
    /\ UNCHANGED <<mob, anims, mobjects, timelineVars, phase, renderVars, unitVars>>

(* a play(...) call of construct(), one of the given calls of the catalogue *)
PlayFrom(ids) ==
    /\ phase = "construct"
    /\ Len(blocks) < MaxPlays
    /\ \E c \in ids :
        LET call == PlayCall(c)
            r == ScenePlay(call.args, call.duration, call.easing, anims, builders, blocks, mob)
        IN  /\ call.needs <= Len(builders)
            /\ \A k \in 1..Len(call.args) : call.args[k].again => anims # << >>
            /\ anims' = r.anims
            /\ builders' = r.builders
            /\ blocks' = r.blocks
            /\ durSum' = IF r.blocks = blocks THEN durSum
                         ELSE RAdd(durSum, r.blocks[Len(r.blocks)].duration)
            /\ last' = [NoLast EXCEPT !.op = IF r.raised THEN "play raised" ELSE "play",
                                      !.call = c, !.duration = call.duration,
                                      !.easing = call.easing,
                                      !.queue = IF builders = << >> THEN << >>
                                                ELSE builders[1].pending_operations,
                                      !.inserted = last.inserted]
    /\ UNCHANGED <<mob, mobjects, fps, phase, renderVars, unitVars>>

Play == PlayFrom(PlayCallIds)

(* a wait(duration) call of construct() *)
WaitFor(durations) ==
    /\ phase = "construct"
    /\ Len(blocks) < MaxPlays
    /\ \E d \in durations :
        /\ blocks' = SceneWait(blocks, d)
        /\ durSum' = RAdd(durSum, d)
        /\ last' = [NoLast EXCEPT !.op = "wait", !.duration = d,
                                  !.inserted = last.inserted]
    /\ UNCHANGED <<mob, anims, sceneVars, fps, phase, renderVars, unitVars>>

Wait == WaitFor(WaitVals)

(* render_scene up to the frame loop: the fps, total_frames, every begin() *)
RenderStart ==
    /\ phase \in {"construct", "done"}
    /\ renders < MaxRenders
    /\ \E f \in RenderFps :
        /\ fps' = f
        /\ total' = total_frames(blocks, f)
    /\ anims' = BeginAll(Flatten(blocks), 1, anims, mob)
    /\ nfinish' = [k \in 1..Len(anims) |-> 0]
    /\ phase' = "frames"
    /\ frame' = 0
    /\ renders' = renders + 1
    /\ last' = [NoLast EXCEPT !.op = "render", !.found = mob]
    /\ UNCHANGED <<mob, sceneVars, blocks, durSum, unitVars>>

(* one pass of the frame loop *)
RenderFrame ==
    /\ phase = "frames"
    /\ frame < total
    /\ LET r == InterpolateAll(get_active_animations(blocks, anims, fps, frame), 1, anims, mob)
       IN  /\ anims' = r.anims
           /\ mob' = r.mob
    /\ frame' = frame + 1
    /\ last' = [NoLast EXCEPT !.op = "frame", !.found = last.found]
    /\ UNCHANGED <<sceneVars, timelineVars, phase, total, renders, nfinish, unitVars>>

(* render_scene after the frame loop: every finish() *)
RenderFinish ==
    /\ phase = "frames"
    /\ frame = total
    /\ LET r == FinishAll(Flatten(blocks), 1, anims, mob)
       IN  /\ anims' = r.anims
           /\ mob' = r.mob
    /\ nfinish' = [k \in 1..Len(anims) |-> nfinish[k] + Occurrences(Flatten(blocks), k)]
    /\ phase' = "done"
    /\ last' = [NoLast EXCEPT !.op = "finished"]
    /\ UNCHANGED <<sceneVars, timelineVars, frame, total, renders, unitVars>>

Next ==
    \/ Animate
    \/ Play
    \/ Wait
    \/ RenderStart
    \/ RenderFrame
    \/ RenderFinish

Spec == Init /\ [][Next]_vars

-----------------------------------------------------------------------------
(* The construction specification: construct() alone, with every call of    *)
(* the catalogue, negative durations included.                              *)

PlayAny == PlayFrom(AllPlayCallIds)

WaitAny == WaitFor(AllWaitVals)

NextPlay ==
    \/ Animate
    \/ PlayAny
    \/ WaitAny

SpecPlay == Init /\ [][NextPlay]_vars

-----------------------------------------------------------------------------
(* Claims about render_scene, checked under Spec.                           *)

(* block i's first frame is the next one the frame loop draws *)
BlockBegins(i) ==
    /\ phase = "frames"
    /\ frame < total
    /\ frame_span(blocks[i], fps) > 0
    /\ frame = offset(blocks, i, fps)

(* block i's frame span lies before the next frame the frame loop draws *)
SpanPassed(i) ==
    /\ phase = "frames"
    /\ frame < total
    /\ frame_span(blocks[i], fps) > 0
    /\ offset(blocks, i, fps) + frame_span(blocks[i], fps) <= frame

AnimationsOf(i) == {blocks[i].animations[k] : k \in 1..Len(blocks[i].animations)}

(* the object of animation a is the object of an animation of block j *)
AnimatesObjectOf(j, a) ==
    \E b \in AnimationsOf(j) : anims[b].mobject = anims[a].mobject

(* C2: while render_scene runs, at the moment block i begins the initial    *)
(* snapshot of each of its animations is the state its object then has.     *)
C2_InitialIsStateAtBlockStart ==
    \A i \in 1..Len(blocks) :
        BlockBegins(i) =>
            \A a \in AnimationsOf(i) :
                anims[a].initial_state = CaptureInitialState(anims[a], mob)

(* the case of C2: a block after the first begins, one that animates an     *)
(* object an earlier block animated                                         *)
C2_Case ==
    \E i \in 2..Len(blocks) :
        /\ BlockBegins(i)
        /\ \E a \in AnimationsOf(i) : \E j \in 1..(i - 1) : AnimatesObjectOf(j, a)

(* C3: while render_scene runs, once block i's span has passed each of its  *)
(* animations has been finished exactly once, and its object, unless a      *)
(* later block animates it too, holds the state finish() leaves.            *)
C3_FinishedOnceSpanPassed ==
    \A i \in 1..Len(blocks) :
        SpanPassed(i) =>
            \A a \in AnimationsOf(i) :
                /\ nfinish[a] = 1
                /\ (\A j \in (i + 1)..Len(blocks) : ~AnimatesObjectOf(j, a))
                    => AnimFinish(anims[a], mob).m = mob

(* the count of C3 alone: finish() ran exactly once on a passed block *)
C3_FinishCountSpanPassed ==
    \A i \in 1..Len(blocks) :
        SpanPassed(i) => \A a \in AnimationsOf(i) : nfinish[a] = 1

(* the case of C3: a frame of a later block is next, the span of a block    *)
(* holding an animation having passed                                       *)
C3_Case ==
    \E i \in 1..Len(blocks) : SpanPassed(i) /\ blocks[i].animations # << >>

(* C11: for a scene built by play and wait calls, on every frame of         *)
(* [0, total_frames) every progress get_active_animations returns lies in   *)
(* [0, 1].                                                                  *)
C11_ProgressInUnitInterval ==
    phase \in {"frames", "done"} =>
        \A fr \in 0..(total - 1) :
            LET r == get_active_animations(blocks, anims, fps, fr)
            IN  \A k \in 1..Len(r) : RLe(Zero, r[k][2]) /\ RLe(r[k][2], One)

(* the case of C11: a rendered scene with a block whose animations have     *)
(* own durations that differ                                                *)
C11_Case ==
    /\ phase = "frames"
    /\ \E i \in 1..Len(blocks) : \E a, b \in AnimationsOf(i) :
            anims[a].duration # anims[b].duration

-----------------------------------------------------------------------------
(* More claims on the Timeline, checked under SpecTimeline.                 *)

(* the first frame after the span of the last block *)
SpansEnd == offset(blocks, Len(blocks) + 1, fps)

(* C12: for every frame index f >= total_frames(), get_active_animations(f) *)
(* is the empty list, also where the blocks' frame spans add up to more     *)
(* than total_frames().                                                     *)
C12_NoAnimationsFromTotalFrames ==
    LET t == total_frames(blocks, fps)
    IN  \A fr \in t..(IF SpansEnd > t THEN SpansEnd ELSE t) :
            Len(get_active_animations(blocks, anims, fps, fr)) = 0

(* the case of C12: the spans add up to more than total_frames() and the    *)
(* block at frame total_frames() holds an animation                         *)
C12_Case ==
    /\ SpansEnd > total_frames(blocks, fps)
    /\ BlockAt(blocks, fps, total_frames(blocks, fps)) # 0
    /\ blocks[BlockAt(blocks, fps, total_frames(blocks, fps))].animations # << >>

-----------------------------------------------------------------------------
(* Claims on Scene.play and Scene.wait, checked under SpecPlay.             *)

(* the step is a play(...) call that returned and appended a block *)
PlayAppended ==
    /\ last'.op = "play"
    /\ Len(blocks') = Len(blocks) + 1

(* every argument of the call is an AnimationBuilder *)
OnlyBuilders(c) ==
    \A k \in 1..Len(PlayCall(c).args) : PlayCall(c).args[k].tag = "AnimationBuilder"

(* C13, as stated: the block play(..., duration=D) appends has the maximum  *)
(* of its animations' own durations as its duration, and that is D.         *)
C13_BlockDurationIsMaxAndD ==
    [][PlayAppended =>
        LET b == blocks'[Len(blocks')]
        IN  /\ \E k \in 1..Len(b.animations) :
                    anims'[b.animations[k]].duration = b.duration
            /\ \A k \in 1..Len(b.animations) :
                    RLe(anims'[b.animations[k]].duration, b.duration)
            /\ b.duration = last'.duration]_vars

(* C13, amended: the block's duration is the maximum of its animations' own *)
(* durations; it is D where every argument is an AnimationBuilder.          *)
C13_BlockDurationIsMax ==
    [][PlayAppended =>
        LET b == blocks'[Len(blocks')]
        IN  /\ \E k \in 1..Len(b.animations) :
                    anims'[b.animations[k]].duration = b.duration
            /\ \A k \in 1..Len(b.animations) :
                    RLe(anims'[b.animations[k]].duration, b.duration)
            /\ OnlyBuilders(last'.call) => b.duration = last'.duration]_vars

(* play(builder, Move of duration 1, duration=0.5) has appended a block of  *)
(* duration 1 holding the built animations and the Move                     *)
C13_Witness ==
    /\ last.op = "play"
    /\ last.call = 11
    /\ blocks # << >>
    /\ Len(blocks[Len(blocks)].animations) >= 2
    /\ blocks[Len(blocks)].duration = One
    /\ anims[blocks[Len(blocks)].animations[1]].duration = Half

(* the call has an argument that is neither an Animation nor a builder *)
HasInvalidArgument(c) ==
    \E k \in 1..Len(PlayCall(c).args) :
        PlayCall(c).args[k].tag \notin {"Animation", "AnimationBuilder"}

(* C14: play with an argument that is neither an Animation nor an           *)
(* AnimationBuilder, at any position, raises and appends no block: the      *)
(* blocks and total_frames stay as they were.                               *)
C14_InvalidArgumentRaisesNoBlock ==
    [][(last'.op \in {"play", "play raised"} /\ HasInvalidArgument(last'.call)) =>
        /\ last'.op = "play raised"
        /\ blocks' = blocks
        /\ \A f \in RenderFps : total_frames(blocks', f) = total_frames(blocks, f)]_vars

(* play(Move, <invalid>) has raised on a timeline that holds a block *)
C14_Witness ==
    /\ last.op = "play raised"
    /\ last.call = 8
    /\ HasInvalidArgument(8)
    /\ PlayCall(8).args[1].tag = "Animation"
    /\ Len(blocks) = 1

(* C15: play and wait reject a negative duration: no such call returns      *)
(* without an error, and the timeline holds no block it appended.           *)
C15_NegativeDurationRejected ==
    /\ RLt(last.duration, Zero) => last.op \notin {"play", "wait"}
    /\ \A i \in 1..Len(blocks) : ~RLt(blocks[i].duration, Zero)

(* the case of C15: a play or wait call with a negative duration was made *)
C15_Case ==
    /\ last.op \in {"play", "play raised", "wait"}
    /\ RLt(last.duration, Zero)

-----------------------------------------------------------------------------
(* More claims about render_scene, checked under Spec.                      *)

(* block i holds animations, all of own duration 0 *)
ZeroDurationBlock(i) ==
    /\ blocks[i].animations # << >>
    /\ \A a \in AnimationsOf(i) : anims[a].duration = Zero

(* every animation of the timeline on the object of a has duration 0 *)
OnlyZeroDurationOn(a) ==
    \A j \in 1..Len(blocks) : \A b \in AnimationsOf(j) :
        anims[b].mobject = anims[a].mobject => anims[b].duration = Zero

(* a frame at or after the end of block i's span has been drawn *)
RenderingPassed(i) ==
    /\ phase = "frames"
    /\ frame - 1 >= offset(blocks, i, fps) + frame_span(blocks[i], fps)

(* C16: an animation of duration 0 is reported with progress 1 by every     *)
(* query that returns it, and an object animated by animations of duration  *)
(* 0 only holds their final state once rendering has passed their block.    *)
C16_ZeroDurationIsInstant ==
    /\ phase \in {"frames", "done"} =>
        \A fr \in 0..(total - 1) :
            LET r == get_active_animations(blocks, anims, fps, fr)
            IN  \A k \in 1..Len(r) :
                    anims[r[k][1]].duration = Zero => r[k][2] = One
    /\ \A i \in 1..Len(blocks) :
        (ZeroDurationBlock(i) /\ RenderingPassed(i)) =>
            \A a \in AnimationsOf(i) :
                OnlyZeroDurationOn(a) => AnimFinish(anims[a], mob).m = mob

(* the case of C16: rendering has passed a block of animations of duration 0 *)
C16_Case ==
    \E i \in 1..Len(blocks) : ZeroDurationBlock(i) /\ RenderingPassed(i)

-----------------------------------------------------------------------------
(* The builder specification: one AnimationBuilder on object 1, driven by   *)
(* its chainable operations and build(), with the object moved by its own   *)
(* mutators in between.  anims is the list the last build() returned.       *)

BuildParams == {<<One, "linear">>, <<Half, "smooth">>}

ShiftDeltas == {<<RInt(2), Zero>>, UP}

InitBuilder ==
    /\ mob = <<MObjMoveTo(PlainObject(Zero), RIGHT), StyledObject(Zero)>>
    /\ anims = << >>
    /\ mobjects = << >>
    /\ builders = <<NewBuilder(1)>>
    /\ blocks = << >>
    /\ fps = DEFAULT_FPS
    /\ durSum = Zero
    /\ phase = "builder"
    /\ frame = 0
    /\ total = 0
    /\ renders = 0
    /\ nfinish = << >>
    /\ nbegin = 0
    /\ nmut = 0
    /\ nops = 0
    /\ nbuild = 0
    /\ last = NoLast

(* a chainable operation: the builder it returns replaces the builder *)
Chained(op, b) ==
    /\ phase = "builder"
    /\ nops < MaxOps
    /\ builders' = <<b>>
    /\ nops' = nops + 1
    /\ last' = [NoLast EXCEPT !.op = op, !.queue = builders[1].pending_operations]
    /\ UNCHANGED <<mob, anims, mobjects, timelineVars, phase, renderVars,
                   nbegin, nmut, nbuild>>

CallMoveTo     == Chained("move_to", BuilderMoveTo(builders[1], <<RInt(3), Zero>>))
CallShift      == \E delta \in ShiftDeltas :
                      Chained("shift", BuilderShift(builders[1], delta))
CallScale      == Chained("scale", BuilderScale(builders[1], RInt(2)))
CallRotate     == Chained("rotate", BuilderRotate(builders[1], Half))
CallFadeIn     == Chained("fade_in", BuilderFadeIn(builders[1]))
CallFadeOut    == Chained("fade_out", BuilderFadeOut(builders[1]))
CallSetColor   == Chained("set_color", BuilderSetColor(builders[1], RED))
CallSetOpacity == Chained("set_opacity", BuilderSetOpacity(builders[1], Half))

HasShift(q) == \E k \in 1..Len(q) : q[k].op = "shift"

(* the object is moved by its own move_to between the builder's calls *)
MoveObject ==
    /\ phase = "builder"
    /\ nmut < MaxMutations
    /\ mob' = [mob EXCEPT ![1] = MObjMoveTo(mob[1], <<RInt(5), Zero>>)]
    /\ nmut' = nmut + 1
    /\ last' = [NoLast EXCEPT !.op = "mutate",
                              !.queue = builders[1].pending_operations,
                              !.after = IF HasShift(builders[1].pending_operations)
                                        THEN "shift queued" ELSE "none"]
    /\ UNCHANGED <<anims, sceneVars, timelineVars, phase, renderVars,
                   nbegin, nops, nbuild>>

CallBuild ==
    /\ phase = "builder"
    /\ nbuild < MaxBuilds
    /\ \E p \in BuildParams :
        LET r == Build(builders[1], p[1], p[2], mob)
        IN  /\ anims' = r.animations
            /\ builders' = <<r.builder>>
            /\ last' = [NoLast EXCEPT !.op = "build", !.duration = p[1], !.easing = p[2],
                                      !.queue = builders[1].pending_operations,
                                      !.after = IF last.op = "mutate"
                                                   /\ last.after = "shift queued"
                                                THEN "moved after shift"
                                                ELSE IF last.op = "build" THEN "build"
                                                ELSE "none"]
    /\ nbuild' = nbuild + 1
    /\ UNCHANGED <<mob, mobjects, timelineVars, phase, renderVars, nbegin, nmut, nops>>

NextBuilder ==
    \/ CallMoveTo
    \/ CallShift
    \/ CallScale
    \/ CallRotate
    \/ CallFadeIn
    \/ CallFadeOut
    \/ CallSetColor
    \/ CallSetOpacity
    \/ MoveObject
    \/ CallBuild

SpecBuilder == InitBuilder /\ [][NextBuilder]_vars

-----------------------------------------------------------------------------
(* Claims on AnimationBuilder, checked under SpecBuilder.                   *)

RecognizedOps == {"move_to", "shift", "scale", "rotate", "fade_in", "fade_out"}

KindOf(op) ==
    CASE op \in {"move_to", "shift"} -> "Move"
      [] op = "scale"    -> "Scale"
      [] op = "rotate"   -> "Rotate"
      [] op = "fade_in"  -> "FadeIn"
      [] op = "fade_out" -> "FadeOut"

(* the records of a queue that build() turns into animations, in order *)
RecognizedOf(q) == SelectSeq(q, LAMBDA o : o.op \in RecognizedOps)

(* the place, in the list build() returns, of the animation of record k *)
EmittedAt(q, k) == Cardinality({j \in 1..k : q[j].op \in RecognizedOps})

(* C17: the Move build() emits for a queued shift(delta) has the target     *)
(* (position of the object when build() runs) + delta, whatever happened    *)
(* to the position between the shift() call and the build() call.           *)
C17_ShiftResolvedAtBuildTime ==
    last.op = "build" =>
        \A k \in 1..Len(last.queue) :
            last.queue[k].op = "shift" =>
                /\ EmittedAt(last.queue, k) <= Len(anims)
                /\ anims[EmittedAt(last.queue, k)].kind = "Move"
                /\ anims[EmittedAt(last.queue, k)].target
                        = VAdd(mob[1].position, last.queue[k].value)

(* the scenario of the spec: the object at (1, 0), shift((2, 0)) queued,    *)
(* the object moved to (5, 0), then build(): the Move's target is (7, 0)    *)
C17_Witness ==
    /\ last.op = "build"
    /\ last.after = "moved after shift"
    /\ mob[1].position = <<RInt(5), Zero>>
    /\ Len(last.queue) = 1
    /\ last.queue[1].op = "shift"
    /\ Len(anims) = 1
    /\ anims[1].target = <<RInt(7), Zero>>

C18_WitnessOrder ==
    /\ last.op = "build"
    /\ Len(last.queue) = 2
    /\ last.queue[1].op = "rotate"
    /\ last.queue[2].op = "fade_out"
    /\ Len(anims) = 2

ChainOps == RecognizedOps \cup {"set_color", "set_opacity"}

(* C19: a chainable operation appends one record to the end of the queue,   *)
(* leaves the earlier records as they were and returns the same builder;    *)
(* build() alone consumes the queue and leaves it empty, and a build()      *)
(* right after a build() returns the empty list.                            *)
C19_QueueAppendedAndConsumedByBuild ==
    LET q == builders[1].pending_operations
    IN  /\ Len(builders) = 1
        /\ builders[1].mobject = 1
        /\ last.op \in ChainOps =>
            /\ Len(q) = Len(last.queue) + 1
            /\ SubSeq(q, 1, Len(last.queue)) = last.queue
            /\ q[Len(q)].op = last.op
        /\ last.op = "mutate" => Len(q) = Len(last.queue)
        /\ last.op = "build" =>
            /\ q = << >>
            /\ last.queue = << >> => anims = << >>
            /\ last.after = "build" => anims = << >>

(* a build() of a queue of two records followed at once by a second build() *)
C19_Witness ==
    /\ last.op = "build"
    /\ last.after = "build"
    /\ nbuild = 2
    /\ nops = 2
    /\ builders[1].pending_operations = << >>
    /\ anims = << >>

C19_WitnessAppend ==
    /\ last.op = "fade_in"
    /\ Len(last.queue) = 1
    /\ Len(builders[1].pending_operations) = 2

-----------------------------------------------------------------------------
(* A further claim on the lifecycle, checked under SpecAnim.                *)

(* the step mutates the reference object of the started Transform alone *)
ReferenceMutatedAfterBegin ==
    /\ anims[1].kind = "Transform"
    /\ anims[1].started
    /\ anims' = anims
    /\ mob'[anims[1].target_mobject] # mob[anims[1].target_mobject]
    /\ mob'[anims[1].mobject] = mob[anims[1].mobject]

(* C20: a mutation of the reference object of a Transform made after        *)
(* begin() changes nothing of what a later interpolate() or finish()        *)
(* writes: each writes what it would have written without the mutation.     *)
C20_ReferenceMutationHasNoEffect ==
    [][ReferenceMutatedAfterBegin =>
        /\ \A alpha \in Alphas :
            AnimInterpolate(anims'[1], mob', alpha).m[anims[1].mobject]
                = AnimInterpolate(anims[1], mob, alpha).m[anims[1].mobject]
        /\ AnimFinish(anims'[1], mob').m[anims[1].mobject]
                = AnimFinish(anims[1], mob).m[anims[1].mobject]
        /\ anims'[1].final_state = anims[1].final_state]_vars

(* finish() after the reference object was moved away: the object stands    *)
(* where the snapshot says, not where the reference object stands now       *)
C20_Witness ==
    /\ anims[1].kind = "Transform"
    /\ last.op = "finish"
    /\ nmut >= 1
    /\ mob[2].position # anims[1].final_state.position
    /\ mob[2].color # anims[1].final_state.color
    /\ mob[1].position = anims[1].final_state.position
    /\ mob[1].color = anims[1].final_state.color

-----------------------------------------------------------------------------
(* The scene-list specification: a Scene driven by add, remove and clear,   *)
(* with play and wait calls filling its timeline and the objects changed    *)
(* by their own mutators in between.                                        *)

SceneObjs == 1..3

(* the argument lists of add(...) and remove(...): one object, two objects, *)
(* the same object twice                                                    *)
ObjectLists ==
    {<<o>> : o \in SceneObjs} \cup {<<1, 2>>, <<2, 1>>, <<3, 3>>}

InitScene ==
    /\ mob = <<PlainObject(Zero), StyledObject(Half), PlainObject(Half)>>
    /\ anims = << >>
    /\ mobjects = << >>
    /\ builders = << >>
    /\ blocks = << >>
    /\ fps = DEFAULT_FPS
    /\ durSum = Zero
    /\ phase = "construct"
    /\ frame = 0
    /\ total = 0
    /\ renders = 0
    /\ nfinish = << >>
    /\ nbegin = 0
    /\ nmut = 0
    /\ nops = 0
    /\ nbuild = 0
    /\ last = NoLast

Present(ms, o) == \E k \in 1..Len(ms) : ms[k] = o

(* history: the order of the most recent insertions that took effect, after *)
(* add(objs): an object not present is inserted now                         *)
RECURSIVE InsertedAfterAdd(_, _)
InsertedAfterAdd(ins, objs) ==
    IF objs = << >> THEN ins
    ELSE InsertedAfterAdd(IF Present(ins, Head(objs)) THEN ins
                          ELSE Append(ins, Head(objs)), Tail(objs))

Add ==
    /\ phase = "construct"
    /\ \E objs \in ObjectLists :
        /\ mobjects' = SceneAdd(mobjects, objs)
        /\ last' = [NoLast EXCEPT !.op = "add", !.objects = objs, !.found = mobjects,
                                  !.inserted = InsertedAfterAdd(last.inserted, objs)]
    /\ UNCHANGED <<mob, anims, builders, timelineVars, phase, renderVars, unitVars>>

Remove ==
    /\ phase = "construct"
    /\ \E objs \in ObjectLists :
        /\ mobjects' = SceneRemove(mobjects, objs)
        /\ last' = [NoLast EXCEPT !.op = "remove", !.objects = objs, !.found = mobjects,
                                  !.inserted = SelectSeq(last.inserted,
                                      LAMBDA x : \A k \in 1..Len(objs) : objs[k] # x)]
    /\ UNCHANGED <<mob, anims, builders, timelineVars, phase, renderVars, unitVars>>

(* clear: the animations of the dropped blocks are no longer reachable *)
Clear ==
    /\ phase = "construct"
    /\ LET r == SceneClear(mobjects, blocks)
       IN  /\ mobjects' = r.mobjects
           /\ blocks' = r.blocks
    /\ anims' = << >>
    /\ durSum' = Zero
    /\ last' = [NoLast EXCEPT !.op = "clear", !.found = mobjects,
                              !.duration = SumDurations(blocks)]
    /\ UNCHANGED <<mob, builders, fps, phase, renderVars, unitVars>>

(* play(Move(...)) and wait(0.5): the list of objects is left alone *)
PlayMove == PlayFrom({1})

WaitHalf == WaitFor({Half})

(* an object is changed by its own mutators *)
Touch ==
    /\ phase = "construct"
    /\ nmut < MaxMutations
    /\ \E s \in Mutations(mob[1]) : mob' = [mob EXCEPT ![1] = s]
    /\ nmut' = nmut + 1
    /\ last' = [NoLast EXCEPT !.op = "mutate", !.inserted = last.inserted]
    /\ UNCHANGED <<anims, sceneVars, timelineVars, phase, renderVars,
                   nbegin, nops, nbuild>>

NextScene ==
    \/ Add
    \/ Remove
    \/ Clear
    \/ PlayMove
    \/ WaitHalf
    \/ Touch

SpecScene == InitScene /\ [][NextScene]_vars

-----------------------------------------------------------------------------
(* Claims on the scene's list of objects, checked under SpecScene.          *)

NoDuplicates(ms) == \A k, l \in 1..Len(ms) : ms[k] = ms[l] => k = l

(* C21: after any add, remove and clear calls the scene's list holds each   *)
(* object at most once, in the order of the objects' most recent insertion  *)
(* that took effect; add of objects all present and remove of objects all   *)
(* absent leave the list as it was.                                         *)
C21_ObjectListIsOrderedSet ==
    /\ NoDuplicates(mobjects)
    /\ mobjects = last.inserted
    /\ (last.op = "add" /\ \A k \in 1..Len(last.objects) : Present(last.found, last.objects[k]))
            => mobjects = last.found
    /\ (last.op = "remove" /\ \A k \in 1..Len(last.objects) : ~Present(last.found, last.objects[k]))
            => mobjects = last.found

(* add(c, c) on the list (b, a), b inserted before a: the list is (b, a, c) *)
C21_Witness ==
    /\ last.op = "add"
    /\ last.objects = <<3, 3>>
    /\ last.found = <<2, 1>>
    /\ mobjects = <<2, 1, 3>>

(* an add of an object present and a remove of an object absent *)
C21_WitnessNoOp ==
    /\ last.op = "remove"
    /\ last.objects = <<3>>
    /\ last.found = <<1, 2>>
    /\ mobjects = <<1, 2>>


(***************************************************************************)
(* C22: Scene.clear() leaves the list of objects empty and the timeline    *)
(* with no block, hence total_frames = 0, and changes the animatable       *)
(* state of no object.                                                     *)
(***************************************************************************)
C22_ClearEmptiesSceneAndTimeline ==
    [][last'.op = "clear" =>
          /\ mobjects' = << >>
          /\ blocks' = << >>
          /\ total_frames(blocks', fps') = 0
          /\ mob' = mob]_vars

(* clear() was called on a scene with two objects, one of them changed by
   its mutators, and a timeline that lasted some time *)
C22_Witness ==
    /\ last.op = "clear"
    /\ Len(last.found) = 2
    /\ RLt(Zero, last.duration)
    /\ nmut = 1
    /\ mob[1] # PlainObject(Zero)
    /\ blocks = << >>


------------------------------------------------------------------------------
(* the objects as frame f alone leaves them, evaluated on the objects as
   the begin() loop of render_scene found them (last.found) *)
DirectFrame(f) ==
    InterpolateAll(get_active_animations(blocks, anims, fps, f), 1, anims, last.found).mob

(***************************************************************************)
(* C23: the state of every object at frame f of a render is a function of  *)
(* the timeline and f only: after frames 0, 1, ..., f were evaluated in    *)
(* order every object is in the state that evaluating frame f alone, right *)
(* after the animations have begun, gives it.                              *)
(***************************************************************************)
C23_FrameStateIsFunctionOfFrame ==
    (phase = "frames" /\ frame > 0) => mob = DirectFrame(frame - 1)

(* the case of C23: the frame just evaluated lies in a block that follows a
   block whose animation moved an object of the scene *)
C23_Case ==
    /\ phase = "frames"
    /\ frame > 0
    /\ LET i == BlockAt(blocks, fps, frame - 1)
       IN  /\ i > 1
           /\ \E j \in 1..(i - 1) :
                /\ frame_span(blocks[j], fps) > 0
                /\ \E k \in 1..Len(blocks[j].animations) :
                     mob[anims[blocks[j].animations[k]].mobject]
                        # last.found[anims[blocks[j].animations[k]].mobject]


------------------------------------------------------------------------------
(* easing.py on its own: one easing function is applied to one t of [0, 1]. *)

EaseTimes == {Zero, Rat(1, 4), Rat(1, 3), Half, Rat(2, 3), Rat(3, 4), One}

BackEasings == {"ease_in_back", "ease_out_back", "ease_in_out_back"}

(* the t at which the model can evaluate the easing exactly *)
EaseDefined(e, t) ==
    CASE e = "ease_in_sine"     -> RDiv(t, RInt(2)) \in CosAngles
      [] e = "ease_out_sine"    -> RDiv(t, RInt(2)) \in SinAngles
      [] e = "ease_in_out_sine" -> t \in CosAngles
      [] OTHER                  -> TRUE

InitEasing ==
    /\ mob = <<PlainObject(Zero), StyledObject(Half)>>
    /\ anims = << >>
    /\ mobjects = << >>
    /\ builders = << >>
    /\ blocks = << >>
    /\ fps = DEFAULT_FPS
    /\ durSum = Zero
    /\ phase = "easing"
    /\ frame = 0
    /\ total = 0
    /\ renders = 0
    /\ nfinish = << >>
    /\ nbegin = 0
    /\ nmut = 0
    /\ nops = 0
    /\ nbuild = 0
    /\ \E e \in Easings, t \in EaseTimes :
        /\ EaseDefined(e, t)
        /\ last = [NoLast EXCEPT !.easing = e, !.alpha = t]

(* easing(t) *)
CallEasing ==
    /\ phase = "easing"
    /\ last.op = "none"
    /\ last' = [last EXCEPT !.op = "ease", !.value = Ease(last.easing, last.alpha)]
    /\ UNCHANGED <<mob, anims, sceneVars, timelineVars, phase, renderVars, unitVars>>

NextEasing == CallEasing

SpecEasing == InitEasing /\ [][NextEasing]_vars

InUnitInterval(x) == RLe(Zero, x) /\ RLe(x, One)

C24_WitnessBack ==
    /\ last.op = "ease"
    /\ last.easing = "ease_out_back"
    /\ last.alpha = Half
    /\ RLt(One, last.value)


------------------------------------------------------------------------------
(* x lies in the closed interval between a and b *)
Between(x, a, b) == RLe(RMin(a, b), x) /\ RLe(x, RMax(a, b))

(* the attributes an animation interpolates linearly, as a sequence of
   numbers: those of _capture_state but the rotation for a Transform, the
   position for a Move *)
LinearOf(a, s) ==
    IF a.kind = "Transform"
    THEN <<s.position[1], s.position[2], s.scale_factor, s.opacity,
           s.fill_opacity, s.stroke_opacity, s.color[1], s.color[2], s.color[3]>>
    ELSE <<s.position[1], s.position[2]>>

(***************************************************************************)
(* C25: for every raw progress value, below 0 and above 1 included, and    *)
(* every easing function, overshooting ones included, interpolate() passes *)
(* an alpha clamped to [0, 1] on, so that every linearly interpolated      *)
(* property written to the target lies in the closed interval between its  *)
(* values in the `initial` and the `final` snapshot.                       *)
(***************************************************************************)
C25_WrittenBetweenSnapshots ==
    last.op = "interpolate" =>
        LET a == anims[1]
            w == LinearOf(a, mob[a.mobject])
            i == LinearOf(a, a.initial_state)
            f == LinearOf(a, a.final_state)
        IN  \A k \in 1..Len(w) : Between(w[k], i[k], f[k])

(* interpolate(1.5) of a Transform eased by ease_out_back, whose value
   there is above 1: the target stands on the final snapshot *)
C25_Witness ==
    /\ last.op = "interpolate"
    /\ last.alpha = Rat(3, 2)
    /\ anims[1].kind = "Transform"
    /\ anims[1].easing = "ease_out_back"
    /\ RLt(One, Ease("ease_out_back", last.alpha))
    /\ anims[1].initial_state.position # anims[1].final_state.position
    /\ mob[1].position = anims[1].final_state.position

(* interpolate(-0.5) of a linear animation: the target stands on the
   initial snapshot *)
C25_WitnessBelow ==
    /\ last.op = "interpolate"
    /\ last.alpha = Rat(-1, 2)
    /\ anims[1].easing = "linear"
    /\ anims[1].initial_state.position # anims[1].final_state.position
    /\ mob[1].position = anims[1].initial_state.position


------------------------------------------------------------------------------
(* The rotation part of Transform._interpolate, one loop pass at a time.    *)
(* A rotation is a Python float.  The rationals of this module stand for    *)
(* the floats whose rounding is not looked at; FAR stands for the float     *)
(* 1e17 and NEGFAR for -1e17, written as pairs with denominator 0.  Floats  *)
(* next to 1e17 lie 16 apart, so that subtracting or adding 2 * math.pi     *)
(* (6.28...) rounds back to the same float: 1e17 - 2 * math.pi == 1e17.     *)
(* last.value is diff and last.passes the parity of the loop passes made.   *)

FAR    == <<1, 0>>
NEGFAR == <<-1, 0>>

IsFar(x) == x[2] = 0

(* end_rot - start_rot *)
FSub(x, y) ==
    IF x = FAR /\ y = Zero THEN FAR
    ELSE IF x = Zero /\ y = FAR THEN NEGFAR
    ELSE RSub(x, y)

(* diff > math.pi *)
FAbovePi(x) == IF IsFar(x) THEN x = FAR ELSE RLt(PI, x)

(* diff < -math.pi *)
FBelowMinusPi(x) == IF IsFar(x) THEN x = NEGFAR ELSE RLt(x, RNeg(PI))

(* diff -= 2 * math.pi *)
FSubTwoPi(x) == IF IsFar(x) THEN x ELSE RSub(x, TwoPI)

(* diff += 2 * math.pi *)
FAddTwoPi(x) == IF IsFar(x) THEN x ELSE RAdd(x, TwoPI)

StartRotations == {Zero, Half, RInt(-1), RInt(2), Rat(-3, 2), RInt(3)}
EndRotations   == StartRotations \cup {RInt(-5), RInt(5)}
UnitAlphas     == {Zero, Half, One}

(* the object with its rotation attribute set *)
Turned(s, rot) == [s EXCEPT !.rotation = rot]

(* a begun Transform of object 1 into object 2 and the alpha handed to
   _interpolate *)
InitRotation ==
    /\ \E pair \in (StartRotations \X EndRotations) \cup {<<Zero, FAR>>, <<FAR, Zero>>} :
        /\ mob = <<Turned(PlainObject(Zero), pair[1]), Turned(StyledObject(Zero), pair[2])>>
        /\ anims = <<AnimBegin(NewTransform(1, 2, One, "linear"), mob)>>
    /\ \E alpha \in UnitAlphas : last = [NoLast EXCEPT !.anim = 1, !.alpha = alpha]
    /\ mobjects = << >>
    /\ builders = << >>
    /\ blocks = << >>
    /\ fps = DEFAULT_FPS
    /\ durSum = Zero
    /\ phase = "rotation"
    /\ frame = 0
    /\ total = 0
    /\ renders = 0
    /\ nfinish = << >>
    /\ nbegin = 0
    /\ nmut = 0
    /\ nops = 0
    /\ nbuild = 0

(* diff = end_rot - start_rot *)
TakeDiff ==
    /\ phase = "rotation"
    /\ last.op = "none"
    /\ last' = [last EXCEPT !.op = "while_above",
                            !.value = FSub(anims[1].final_state.rotation,
                                           anims[1].initial_state.rotation)]
    /\ UNCHANGED <<mob, anims, sceneVars, timelineVars, phase, renderVars, unitVars>>

(* one pass of `while diff > math.pi` *)
AbovePass ==
    /\ phase = "rotation"
    /\ last.op = "while_above"
    /\ FAbovePi(last.value)
    /\ last' = [last EXCEPT !.value = FSubTwoPi(last.value),
                            !.passes = (last.passes + 1) % 2]
    /\ UNCHANGED <<mob, anims, sceneVars, timelineVars, phase, renderVars, unitVars>>

(* the first loop is left *)
AboveExit ==
    /\ phase = "rotation"
    /\ last.op = "while_above"
    /\ ~FAbovePi(last.value)
    /\ last' = [last EXCEPT !.op = "while_below"]
    /\ UNCHANGED <<mob, anims, sceneVars, timelineVars, phase, renderVars, unitVars>>

(* one pass of `while diff < -math.pi` *)
BelowPass ==
    /\ phase = "rotation"
    /\ last.op = "while_below"
    /\ FBelowMinusPi(last.value)
    /\ last' = [last EXCEPT !.value = FAddTwoPi(last.value),
                            !.passes = (last.passes + 1) % 2]
    /\ UNCHANGED <<mob, anims, sceneVars, timelineVars, phase, renderVars, unitVars>>

(* the second loop is left: self.mobject.rotation = start_rot + alpha * diff *)
WriteRotation ==
    /\ phase = "rotation"
    /\ last.op = "while_below"
    /\ ~FBelowMinusPi(last.value)
    /\ mob' = [mob EXCEPT ![1] = Turned(mob[1],
                    RAdd(anims[1].initial_state.rotation, RMul(last.alpha, last.value)))]
    /\ last' = [last EXCEPT !.op = "written"]
    /\ UNCHANGED <<anims, sceneVars, timelineVars, phase, renderVars, unitVars>>

NextRotation ==
    \/ TakeDiff
    \/ AbovePass
    \/ AboveExit
    \/ BelowPass
    \/ WriteRotation

(* the interpreter keeps running the statement it is at *)
SpecRotation == InitRotation /\ [][NextRotation]_vars /\ WF_vars(NextRotation)

(* the rotation written is within pi of the initial one, and is the one
   TransformInterpolate writes *)
C26_WrittenWithinPi ==
    last.op = "written" =>
        /\ RLe(RAbs(RSub(mob[1].rotation, anims[1].initial_state.rotation)), PI)
        /\ last.value = NormalizeDiff(RawDiff(anims[1]))

(***************************************************************************)
(* C26: for every pair of initial and final rotations and every alpha in   *)
(* [0, 1] the rotation written differs from the initial rotation by at     *)
(* most pi in magnitude, and the two normalization loops terminate for     *)
(* every finite difference: the rotation is written in the end.            *)
(***************************************************************************)
C26_WithinPiAndLoopsTerminate ==
    /\ [](C26_WrittenWithinPi)
    /\ <>(last.op = "written")

(* the case of C26: the difference is 1e17 and the first loop is at work,
   or -1e17 and the second one is *)
C26_Case ==
    /\ IsFar(last.value)
    /\ \/ last.op = "while_above" /\ FAbovePi(last.value)
       \/ last.op = "while_below" /\ FBelowMinusPi(last.value)

(* both loops ran for a difference of 4.5 pi, and the rotation was written *)
C26_CaseWritten ==
    /\ last.op = "written"
    /\ RawDiff(anims[1]) = Rat(13, 2)
    /\ last.value = Half
    /\ last.alpha = Half
    /\ mob[1].rotation = Rat(-5, 4)


------------------------------------------------------------------------------
(* render_scene run to exhaustion: construct() of plain play() and wait()   *)
(* calls, one of which passes an Animation object a second time, then the   *)
(* generator is driven until it returns.                                    *)

PlayRendered == PlayFrom(RenderPlayCallIds)

NextRender ==
    \/ PlayRendered
    \/ Wait
    \/ RenderStart
    \/ RenderFrame
    \/ RenderFinish

SpecRender == Init /\ [][NextRender]_vars

(* the animations of the blocks, as a set *)
BlockAnimations == {Flatten(blocks)[k] : k \in 1..Len(Flatten(blocks))}

(* the objects the animations active on frame fr write to *)
ActiveTargets(fr) ==
    LET active == get_active_animations(blocks, anims, fps, fr)
    IN  {anims[active[k][1]].mobject : k \in 1..Len(active)}

(* begin() has run on every animation of every block once frames are
   evaluated, and total_frames frames are evaluated *)
C27_BegunAndCounted ==
    phase \in {"frames", "done"} =>
        /\ \A k \in BlockAnimations : anims[k].started
        /\ total = total_frames(blocks, fps)
        /\ frame <= total
        /\ phase = "done" => frame = total

(* frames are evaluated in the order 0, 1, ..., and a frame writes to the
   targets of its active animations only; no finish() before the last frame *)
C27_FramesInOrder ==
    [][(phase = "frames" /\ phase' = "frames") =>
          /\ frame' = frame + 1
          /\ frame < total
          /\ \A o \in 1..Len(mob) : o \notin ActiveTargets(frame) => mob'[o] = mob[o]
          /\ \A k \in BlockAnimations : nfinish'[k] = 0]_vars

(* finish() has run exactly once on every animation when the generator ends *)
C27_FinishedOnce ==
    phase = "done" => \A k \in BlockAnimations : nfinish[k] = 1

(* finish() has run once for every place an animation holds in a block *)
C27_FinishedOncePerPlace ==
    phase = "done" => \A k \in BlockAnimations : nfinish[k] = Occurrences(Flatten(blocks), k)

(* a render that has begun comes to its end: while frame < total the frame
   loop can make its next pass, at frame = total the finish loop can run,
   and every step of the render either ends it or brings frame closer to
   total *)
C27_RenderTerminates ==
    [][phase = "frames" =>
          /\ frame <= total
          /\ \/ phase' = "done" /\ frame = total
             \/ phase' = "frames" /\ total' - frame' < total - frame]_vars

(***************************************************************************)
(* C27: render_scene, run to exhaustion, calls begin() on every animation  *)
(* of every block before the first frame, evaluates the frames in the      *)
(* order 0, 1, ..., total_frames - 1, interpolating on each the animations *)
(* get_active_animations returns, then calls finish() on every animation   *)
(* exactly once, and always terminates.                                    *)
(***************************************************************************)
C27_RenderSceneRunsToTheEnd ==
    /\ [](C27_BegunAndCounted)
    /\ C27_FramesInOrder
    /\ [](C27_FinishedOnce)
    /\ C27_RenderTerminates

(* the case of C27: the render ended for a scene whose two blocks hold the
   same Animation object, which was finished twice *)
C27_Case ==
    /\ phase = "done"
    /\ Len(blocks) = 2
    /\ blocks[1].animations = blocks[2].animations
    /\ blocks[1].animations # << >>
    /\ nfinish[blocks[1].animations[1]] = 2


------------------------------------------------------------------------------
(* every argument of call c is a builder whose queue, as the call finds it
   in bu, holds no record build() turns into an animation; a call without
   arguments is one of them *)
ProducesNoAnimation(c, bu) ==
    \A k \in 1..Len(PlayCall(c).args) :
        /\ PlayCall(c).args[k].tag = "AnimationBuilder"
        /\ RecognizedOf(bu[PlayCall(c).args[k].builder].pending_operations) = << >>

(***************************************************************************)
(* C28: a play call whose arguments produce no Animation (no arguments,    *)
(* builders with empty queues, builders holding set_color and set_opacity  *)
(* records only) returns and appends no block: the blocks and total_frames *)
(* stay as they were, whatever the duration, and the queues of its         *)
(* builders are empty afterwards.                                          *)
(***************************************************************************)
C28_NoAnimationNoBlock ==
    [][(last'.op \in {"play", "play raised"} /\ ProducesNoAnimation(last'.call, builders)) =>
        /\ last'.op = "play"
        /\ blocks' = blocks
        /\ \A f \in RenderFps : total_frames(blocks', f) = total_frames(blocks, f)
        /\ \A k \in 1..Len(PlayCall(last'.call).args) :
             builders'[PlayCall(last'.call).args[k].builder].pending_operations = << >>]_vars

(* play(b, duration=0.5) was called with b holding a set_color and a
   set_opacity record: no block, and the queue is empty *)
C28_Witness ==
    /\ last.op = "play"
    /\ last.call = 4
    /\ Len(last.queue) = 2
    /\ RecognizedOf(last.queue) = << >>
    /\ builders[1].pending_operations = << >>
    /\ blocks = << >>

(* play() without arguments on a timeline of one block *)
C28_WitnessNoArguments ==
    /\ last.op = "play"
    /\ last.call = 12
    /\ Len(blocks) = 1

(* play(b, duration=-0.5) with the queue of b empty, after a play(b) that
   built from it *)
C28_WitnessEmptyQueue ==
    /\ last.op = "play"
    /\ last.call = 10
    /\ last.queue = << >>
    /\ Len(blocks) = 1
    /\ blocks[1].animations # << >>


------------------------------------------------------------------------------
(***************************************************************************)
(* C29: shifts queued on one builder are not cumulative: for shift(a) and  *)
(* a later shift(b) on an object standing at p when build() runs, the two  *)
(* Moves have the targets p + a and p + b, and the second is not           *)
(* p + a + b.                                                              *)
(***************************************************************************)
C29_ShiftsNotCumulative ==
    last.op = "build" =>
        \A k, l \in 1..Len(last.queue) :
            (k < l /\ last.queue[k].op = "shift" /\ last.queue[l].op = "shift") =>
                LET p == mob[1].position
                    a == last.queue[k].value
                    b == last.queue[l].value
                    first == anims[EmittedAt(last.queue, k)]
                    second == anims[EmittedAt(last.queue, l)]
                IN  /\ first.kind = "Move" /\ first.target = VAdd(p, a)
                    /\ second.kind = "Move" /\ second.target = VAdd(p, b)
                    /\ second.target # VAdd(VAdd(p, a), b)

(* shift((2, 0)) then shift((0, 1)) were built for the object at (1, 0):
   the targets are (3, 0) and (1, 1) *)
C29_Witness ==
    /\ last.op = "build"
    /\ mob[1].position = RIGHT
    /\ Len(last.queue) = 2
    /\ last.queue[1] = [op |-> "shift", value |-> <<RInt(2), Zero>>]
    /\ last.queue[2] = [op |-> "shift", value |-> UP]
    /\ Len(anims) = 2
    /\ anims[1].target = <<RInt(3), Zero>>
    /\ anims[2].target = <<One, One>>

====
